---- MODULE Spec2Model ----
(***************************************************************************)
(* Remote-image-to-local conversion pipeline of obsidian-image-manager:    *)
(* LocalConversionService (processFile / processContent /                  *)
(* findExternalImages / verifyImageUrl / downloadAndSave /                 *)
(* processAllFiles), ImageProcessor.renameImageFile, and                   *)
(* StorageManager.getAvailablePath / sanitizeFileName /                    *)
(* getExtensionFromMimeType.                                               *)
(*                                                                         *)
(* One conversion run is modelled as a sequential process whose steps are  *)
(* the code between two awaits.  The host (vault, network, modal UI) is    *)
(* the environment: each request or prompt resolves nondeterministically.  *)
(***************************************************************************)
EXTENDS Integers, Sequences, FiniteSets, TLC

(***************************************************************************)
(* Bounds of the model.                                                    *)
(***************************************************************************)
NumDocs == 2          \* documents in the vault
MaxAssets == 4        \* SpecDedup: asset files in the vault before the calls stop
MaxLines == 2         \* SpecMdx: lines of a frontmatter block
MaxPage == 3          \* SpecSearch: how far from page 1 the pagination clicks go

(***************************************************************************)
(* String helpers (JavaScript String methods used by the code).            *)
(***************************************************************************)
UpperChars == "ABCDEFGHIJKLMNOPQRSTUVWXYZ"
LowerChars == "abcdefghijklmnopqrstuvwxyz"

CharAt(s, i) == SubSeq(s, i, i)

lowerOf ==
    [c \in {CharAt(UpperChars, i) : i \in 1..Len(UpperChars)} |->
        CharAt(LowerChars, CHOOSE i \in 1..Len(UpperChars) : CharAt(UpperChars, i) = c)]

toLowerCaseChar(c) == IF c \in DOMAIN lowerOf THEN lowerOf[c] ELSE c

RECURSIVE toLowerCase(_)
toLowerCase(s) ==
    IF s = "" THEN ""
    ELSE toLowerCaseChar(CharAt(s, 1)) \o toLowerCase(SubSeq(s, 2, Len(s)))

startsWith(s, p) == Len(s) >= Len(p) /\ SubSeq(s, 1, Len(p)) = p

\* index of the last occurrence of the one-character string c in s, 0 if none
lastIndexOf(s, c) ==
    LET hits == {i \in 1..Len(s) : CharAt(s, i) = c}
    IN  IF hits = {} THEN 0 ELSE CHOOSE i \in hits : \A j \in hits : j <= i

\* index of the first occurrence of c in s, 0 if none
indexOf(s, c) ==
    LET hits == {i \in 1..Len(s) : CharAt(s, i) = c}
    IN  IF hits = {} THEN 0 ELSE CHOOSE i \in hits : \A j \in hits : i <= j

\* s.split(c).pop(): the text after the last c (the whole of s if there is none)
splitPop(s, c) == SubSeq(s, lastIndexOf(s, c) + 1, Len(s))

\* s.split(c)[0]: the text before the first c (the whole of s if there is none)
splitFirst(s, c) ==
    IF indexOf(s, c) = 0 THEN s ELSE SubSeq(s, 1, indexOf(s, c) - 1)

(***************************************************************************)
(* StorageManager.sanitizeFileName                                         *)
(***************************************************************************)
InvalidChars == {"\\", "/", ":", "*", "?", "\"", "<", ">", "|"}

\* .replace(/[\\/:*?"<>|]/g, '-')
RECURSIVE replaceInvalid(_)
replaceInvalid(s) ==
    IF s = "" THEN ""
    ELSE (IF CharAt(s, 1) \in InvalidChars THEN "-" ELSE CharAt(s, 1))
         \o replaceInvalid(SubSeq(s, 2, Len(s)))

\* .replace(/\s+/g, ' ')
RECURSIVE collapseSpaces(_)
collapseSpaces(s) ==
    IF Len(s) < 2 THEN s
    ELSE IF CharAt(s, 1) = " " /\ CharAt(s, 2) = " "
         THEN collapseSpaces(SubSeq(s, 2, Len(s)))
         ELSE CharAt(s, 1) \o collapseSpaces(SubSeq(s, 2, Len(s)))

\* .replace(/^\.+/, '')
RECURSIVE stripLeadingDots(_)
stripLeadingDots(s) ==
    IF s # "" /\ CharAt(s, 1) = "." THEN stripLeadingDots(SubSeq(s, 2, Len(s))) ELSE s

\* .replace(/\.+$/, '')
RECURSIVE stripTrailingDots(_)
stripTrailingDots(s) ==
    IF s # "" /\ CharAt(s, Len(s)) = "."
    THEN stripTrailingDots(SubSeq(s, 1, Len(s) - 1)) ELSE s

\* .trim()
RECURSIVE trim(_)
trim(s) ==
    IF s # "" /\ CharAt(s, 1) = " " THEN trim(SubSeq(s, 2, Len(s)))
    ELSE IF s # "" /\ CharAt(s, Len(s)) = " " THEN trim(SubSeq(s, 1, Len(s) - 1))
    ELSE s

sanitizeFileName(name) ==
    trim(stripTrailingDots(stripLeadingDots(collapseSpaces(replaceInvalid(name)))))

(***************************************************************************)
(* StorageManager.getExtensionFromMimeType                                 *)
(***************************************************************************)
mimeToExt ==
    [m \in {"image/jpeg", "image/jpg", "image/png", "image/gif", "image/webp",
            "image/svg+xml", "image/bmp", "image/tiff", "image/avif"} |->
        CASE m = "image/jpeg"    -> "jpg"
          [] m = "image/jpg"     -> "jpg"
          [] m = "image/png"     -> "png"
          [] m = "image/gif"     -> "gif"
          [] m = "image/webp"    -> "webp"
          [] m = "image/svg+xml" -> "svg"
          [] m = "image/bmp"     -> "bmp"
          [] m = "image/tiff"    -> "tiff"
          [] m = "image/avif"    -> "avif"]

getExtensionFromMimeType(mimeType) ==
    IF mimeType \in DOMAIN mimeToExt THEN mimeToExt[mimeType] ELSE "png"

(***************************************************************************)
(* toKebabCase (utils/kebab-case), used by DescriptiveImageModal.submit    *)
(***************************************************************************)
WordChars == "abcdefghijklmnopqrstuvwxyz0123456789_"

isWordChar(c) == \E i \in 1..Len(WordChars) : CharAt(WordChars, i) = c

\* the three character-removal replaces: only \w, whitespace and '-' survive
RECURSIVE keepWordSpaceHyphen(_)
keepWordSpaceHyphen(s) ==
    IF s = "" THEN ""
    ELSE (IF isWordChar(CharAt(s, 1)) \/ CharAt(s, 1) \in {" ", "-"}
          THEN CharAt(s, 1) ELSE "")
         \o keepWordSpaceHyphen(SubSeq(s, 2, Len(s)))

\* .replace(/\s+/g, '-').replace(/-+/g, '-')
RECURSIVE hyphenate(_)
hyphenate(s) ==
    IF s = "" THEN ""
    ELSE LET c == IF CharAt(s, 1) = " " THEN "-" ELSE CharAt(s, 1)
             rest == hyphenate(SubSeq(s, 2, Len(s)))
         IN  IF c = "-" /\ rest # "" /\ CharAt(rest, 1) = "-" THEN rest ELSE c \o rest

\* .replace(/^-|-$/g, '')
stripEdgeHyphens(s) ==
    LET a == IF s # "" /\ CharAt(s, 1) = "-" THEN SubSeq(s, 2, Len(s)) ELSE s
    IN  IF a # "" /\ CharAt(a, Len(a)) = "-" THEN SubSeq(a, 1, Len(a) - 1) ELSE a

toKebabCase(str) ==
    stripEdgeHyphens(hyphenate(trim(keepWordSpaceHyphen(toLowerCase(str)))))

(***************************************************************************)
(* Vault paths (TFile.name / basename / extension / parent.path)           *)
(***************************************************************************)
fileName(path) == splitPop(path, "/")

fileExtension(path) ==
    IF lastIndexOf(fileName(path), ".") = 0 THEN ""
    ELSE splitPop(fileName(path), ".")

fileBasename(path) ==
    IF lastIndexOf(fileName(path), ".") = 0 THEN fileName(path)
    ELSE SubSeq(fileName(path), 1, lastIndexOf(fileName(path), ".") - 1)

parentPath(path) ==
    IF lastIndexOf(path, "/") = 0 THEN ""
    ELSE SubSeq(path, 1, lastIndexOf(path, "/") - 1)

\* obsidian normalizePath, on the shapes the model produces: leading and
\* trailing slashes are dropped
RECURSIVE normalizePath(_)
normalizePath(p) ==
    IF startsWith(p, "/") THEN normalizePath(SubSeq(p, 2, Len(p)))
    ELSE IF p # "" /\ CharAt(p, Len(p)) = "/" THEN normalizePath(SubSeq(p, 1, Len(p) - 1))
    ELSE p

\* StorageManager.joinPaths for two parts
joinPaths(a, b) ==
    IF a = "" THEN b ELSE IF b = "" THEN a ELSE a \o "/" \o b

(***************************************************************************)
(* Documents.  A document's text is a sequence of spans; each span carries *)
(* its exact text.  kind "md" is ![alt](url), kind "html" is               *)
(* <img src="url">, kind "text" is any other text (a local reference       *)
(* included); code = TRUE marks a span lying inside a fenced or inline     *)
(* code region.                                                            *)
(***************************************************************************)
NoUrl == [protocol |-> "", hostname |-> "", pathname |-> ""]

UrlPhoto == [protocol |-> "https:", hostname |-> "example.com", pathname |-> "/img/photo.jpg"]
UrlCat   == [protocol |-> "http:",  hostname |-> "cdn.example.com", pathname |-> "/cat.png"]
UrlVideo == [protocol |-> "https:", hostname |-> "www.youtube.com", pathname |-> "/watch.png"]
\* URLs whose last path segment holds no name: a path ending in "/", and a
\* last segment starting with "."
UrlFolder == [protocol |-> "https:", hostname |-> "example.com", pathname |-> "/img/"]
UrlHidden == [protocol |-> "https:", hostname |-> "example.com", pathname |-> "/img/.png"]

urlText(u) == u.protocol \o "//" \o u.hostname \o u.pathname

MdSpan(alt, u, inCode) ==
    [kind |-> "md", text |-> "![" \o alt \o "](" \o urlText(u) \o ")",
     alt |-> alt, url |-> u, code |-> inCode]

HtmlSpan(u, inCode) ==
    [kind |-> "html", text |-> "<img src=\"" \o urlText(u) \o "\">",
     alt |-> "", url |-> u, code |-> inCode]

TextSpan(t, inCode) ==
    [kind |-> "text", text |-> t, alt |-> "", url |-> NoUrl, code |-> inCode]

\* the document texts the vault may hold
DocContents ==
    { <<TextSpan("notes", FALSE)>>,
      <<MdSpan("", UrlPhoto, FALSE)>>,
      <<MdSpan("sun set", UrlPhoto, FALSE), HtmlSpan(UrlCat, FALSE)>>,
      <<MdSpan("", UrlPhoto, TRUE), MdSpan("", UrlPhoto, FALSE)>>,
      <<MdSpan("", UrlPhoto, FALSE), MdSpan("", UrlPhoto, FALSE)>>,
      <<MdSpan("v", UrlVideo, FALSE), MdSpan("", UrlCat, FALSE)>> }

DocIds == 1..NumDocs

docPath(d, ext) == "notes/doc" \o ToString(d) \o "." \o ext

(***************************************************************************)
(* Link scanner: LocalConversionService.findExternalImages (the two regex  *)
(* scans), isExternalUrl, isImageUrl.                                      *)
(***************************************************************************)
isExternalUrl(u) == u.protocol \in {"http:", "https:"}

nonImageDomains ==
    {"youtube.com", "www.youtube.com", "youtu.be", "m.youtube.com",
     "youtube-nocookie.com", "www.youtube-nocookie.com", "vimeo.com",
     "www.vimeo.com", "spotify.com", "open.spotify.com", "soundcloud.com",
     "www.soundcloud.com"}

endsWith(s, p) == Len(s) >= Len(p) /\ SubSeq(s, Len(s) - Len(p) + 1, Len(s)) = p

isImageUrl(u) ==
    LET hostname == toLowerCase(u.hostname)
    IN  ~ \E domain \in nonImageDomains :
            hostname = domain \/ endsWith(hostname, "." \o domain)

\* isInsideCodeBlock at the span's first character
isInsideCodeBlock(content, k) == content[k].code

\* the candidates one regex scan yields, left to right: spans of that kind
\* outside code whose URL passes the preliminary filters
RECURSIVE scanKind(_, _, _)
scanKind(content, kind, k) ==
    IF k > Len(content) THEN << >>
    ELSE (IF /\ content[k].kind = kind
             /\ ~ isInsideCodeBlock(content, k)
             /\ isExternalUrl(content[k].url)
             /\ isImageUrl(content[k].url)
          THEN << [fullMatch |-> content[k].text, url |-> content[k].url,
                   alt |-> content[k].alt, kind |-> kind, pos |-> k, cand |-> 0] >>
          ELSE << >>)
         \o scanKind(content, kind, k + 1)

\* candidateMatches: all markdown images, then all HTML images.  pos (the
\* span matched) and cand (the index in candidateMatches) are history fields.
candidatesOf(content) ==
    LET c == scanKind(content, "md", 1) \o scanKind(content, "html", 1)
    IN  [k \in 1..Len(c) |-> [c[k] EXCEPT !.cand = k]]

(***************************************************************************)
(* Network responses (obsidian requestUrl).  headers is the set holding    *)
(* the content-type header's value, empty when the header is missing.      *)
(***************************************************************************)
Response(st, hs) == [threw |-> FALSE, status |-> st, headers |-> hs]
Threw == [threw |-> TRUE, status |-> 0, headers |-> {}]

HeadOutcomes ==
    {Threw, Response(200, {}), Response(200, {"text/html"}),
     Response(200, {"Image/PNG"})}

GetOutcomes ==
    {Threw, Response(404, {"image/png"}), Response(200, {}),
     Response(200, {"text/html"}), Response(200, {"image/png"}),
     Response(200, {"image/x-icon"})}

\* response.headers['content-type'] ?? ''
contentTypeOf(r) == IF r.headers = {} THEN "" ELSE CHOOSE h \in r.headers : TRUE

\* mutant: any response that did not throw counts as an image
verifyImageUrl_AnyResponse(r) == ~ r.threw

\* mutant: the catch block answers true, and a missing header counts as an image
verifyImageUrl_FailOpen(r) ==
    IF r.threw THEN TRUE
    ELSE contentTypeOf(r) = "" \/ startsWith(toLowerCase(contentTypeOf(r)), "image/")

\* LocalConversionService.verifyImageUrl: the value the HEAD probe resolves to
verifyImageUrl(r) ==
    IF r.threw THEN FALSE
    ELSE startsWith(toLowerCase(contentTypeOf(r)), "image/")

\* mutant: the HTTP status is not looked at
downloadAccepted_NoStatusCheck(r) ==
    /\ ~ r.threw
    /\ startsWith(toLowerCase(contentTypeOf(r)), "image/")

\* downloadAndSave up to the content-type check: TRUE when the GET response
\* is accepted (no throw, status < 400, content-type image/...)
downloadAccepted(r) ==
    /\ ~ r.threw
    /\ ~ (r.status >= 400)
    /\ startsWith(toLowerCase(contentTypeOf(r)), "image/")

\* downloadAndSave: the base name derived from the URL
urlBaseName(u) == sanitizeFileName(splitFirst(splitPop(u.pathname, "/"), "."))

(***************************************************************************)
(* StorageManager.getAttachmentFolder / getAvailablePath                   *)
(***************************************************************************)
ObsidianAttachmentFolderPath == "/"   \* vault.config.attachmentFolderPath ?? '/'

getObsidianAttachmentFolder(notePath) ==
    IF ObsidianAttachmentFolderPath = "/" THEN ""
    ELSE IF ObsidianAttachmentFolderPath = "./" THEN parentPath(notePath)
    ELSE IF startsWith(ObsidianAttachmentFolderPath, "./")
         THEN normalizePath(joinPaths(parentPath(notePath),
                  SubSeq(ObsidianAttachmentFolderPath, 3, Len(ObsidianAttachmentFolderPath))))
    ELSE normalizePath(ObsidianAttachmentFolderPath)

getAttachmentFolder(st, notePath) ==
    CASE st.attachmentLocation = "SameFolder" -> parentPath(notePath)
      [] st.attachmentLocation = "Subfolder" ->
            normalizePath(joinPaths(parentPath(notePath), st.customAttachmentPath))
      [] st.attachmentLocation = "VaultFolder" -> normalizePath(st.customAttachmentPath)
      [] OTHER -> getObsidianAttachmentFolder(notePath)

\* the file name tried for a given counter value (counter 0: no counter)
dupFileName(st, sanitizedName, extension, counter) ==
    IF counter = 0 THEN sanitizedName \o "." \o extension
    ELSE IF st.dupNumberAtStart
         THEN ToString(counter) \o st.dupNumberDelimiter \o sanitizedName \o "." \o extension
         ELSE sanitizedName \o st.dupNumberDelimiter \o ToString(counter) \o "." \o extension

pathInFolder(folder, name) ==
    IF folder # "" THEN normalizePath(joinPaths(folder, name)) ELSE normalizePath(name)

\* the while loop of getAvailablePath: filePath is the path under test,
\* counter the value the next file name will carry
RECURSIVE dedupLoop(_, _, _, _, _, _, _)
dedupLoop(existing, st, folder, sanitizedName, extension, filePath, counter) ==
    IF filePath \in existing
    THEN dedupLoop(existing, st, folder, sanitizedName, extension,
                   pathInFolder(folder, dupFileName(st, sanitizedName, extension, counter)),
                   counter + 1)
    ELSE filePath

\* mutant: the counter is incremented before the first name is built
getAvailablePath_CounterFromTwo(existing, st, baseName, extension, notePath) ==
    LET folder == getAttachmentFolder(st, notePath)
        sanitizedName == sanitizeFileName(baseName)
    IN  dedupLoop(existing, st, folder, sanitizedName, extension,
                  pathInFolder(folder, dupFileName(st, sanitizedName, extension, 0)), 2)

\* mutant: the first name is returned without the existence check
getAvailablePath_NoCheck(existing, st, baseName, extension, notePath) ==
    pathInFolder(getAttachmentFolder(st, notePath),
                 dupFileName(st, sanitizeFileName(baseName), extension, 0))

\* existing: the paths getAbstractFileByPath finds in the vault
getAvailablePath(existing, st, baseName, extension, notePath) ==
    LET folder == getAttachmentFolder(st, notePath)
        sanitizedName == sanitizeFileName(baseName)
    IN  dedupLoop(existing, st, folder, sanitizedName, extension,
                  pathInFolder(folder, dupFileName(st, sanitizedName, extension, 0)), 1)

(***************************************************************************)
(* The replacement closure of a match and String.prototype.replace         *)
(***************************************************************************)
RECURSIVE encodeURI(_)
encodeURI(s) ==
    IF s = "" THEN ""
    ELSE (IF CharAt(s, 1) = " " THEN "%20" ELSE CharAt(s, 1))
         \o encodeURI(SubSeq(s, 2, Len(s)))

\* app.fileManager.generateMarkdownLink for an image file
generateMarkdownLink(path, markdownLinks) ==
    IF markdownLinks THEN "![](" \o encodeURI(path) \o ")"
    ELSE "![[" \o fileName(path) \o "]]"

\* String.prototype.replace with a string pattern and a string replacement:
\* in the replacement "$$" stands for "$", "$&" for the matched text and
\* "$'" for the text after the match; any other "$" stands for itself.  (The
\* pattern for the text before the match is a "$" and a grave accent; no
\* text of the model holds it.)
RECURSIVE getSubstitution(_, _, _)
getSubstitution(template, matched, after) ==
    IF template = "" THEN ""
    ELSE IF /\ CharAt(template, 1) = "$"
            /\ Len(template) >= 2
            /\ CharAt(template, 2) \in {"$", "&", "'"}
         THEN (IF CharAt(template, 2) = "$" THEN "$"
               ELSE IF CharAt(template, 2) = "&" THEN matched
               ELSE after)
              \o getSubstitution(SubSeq(template, 3, Len(template)), matched, after)
         ELSE CharAt(template, 1)
              \o getSubstitution(SubSeq(template, 2, Len(template)), matched, after)

\* image.replacement(localPath), localPath being a file of the vault; with
\* alt text a wikilink is built by link.replace(']]', `|${alt}]]`)
replacement(image, localPath, markdownLinks) ==
    IF image.kind = "html" THEN "![](" \o encodeURI(localPath) \o ")"
    ELSE IF ~ markdownLinks
         THEN IF image.alt # ""
              THEN "![[" \o fileName(localPath)
                   \o getSubstitution("|" \o image.alt \o "]]", "]]", "")
              ELSE generateMarkdownLink(localPath, markdownLinks)
         ELSE "![" \o image.alt \o "](" \o encodeURI(localPath) \o ")"

\* index of the first span whose text is the search string, 0 if none
firstOccurrence(text, search) ==
    LET hits == {k \in 1..Len(text) : text[k].text = search}
    IN  IF hits = {} THEN 0 ELSE CHOOSE k \in hits : \A j \in hits : k <= j

\* the text of the spans after span k
RECURSIVE textAfter(_, _)
textAfter(text, k) ==
    IF k >= Len(text) THEN "" ELSE text[k + 1].text \o textAfter(text, k + 1)

\* newContent.replace(fullMatch, by): the first occurrence only, by being a
\* replacement string
replaceFirst(text, search, by) ==
    IF firstOccurrence(text, search) = 0 THEN text
    ELSE [text EXCEPT ![firstOccurrence(text, search)] =
              TextSpan(getSubstitution(by, search, textAfter(text, firstOccurrence(text, search))),
                       text[firstOccurrence(text, search)].code)]

\* mdx-frontmatter isMarkdownFile
isMarkdownFile(extension) == extension = "md" \/ extension = "mdx"

(***************************************************************************)
(* State                                                                   *)
(***************************************************************************)
VARIABLES
    settings,          \* ImageManagerSettings (the fields the pipeline reads)
    useMarkdownLinks,  \* host setting deciding the form generateMarkdownLink emits
    docs,              \* the vault's documents: [extension, content]
    files,             \* paths of the asset files in the vault
    trigger,           \* entry point running: "none", "command", "fileopen", "all"
    pc,                \* the await the run is suspended at
    fileIdx,           \* the document processFile is working on (0: none)
    totalCount,        \* processAllFiles: totalCount
    retval,            \* value the entry point's promise resolved to (-1: not resolved)
    isBackground,      \* processFile's isBackground argument
    content,           \* processContent: content (the text read)
    newContent,        \* processContent: newContent
    count,             \* processContent: count
    candidateMatches,  \* findExternalImages: candidateMatches
    verifyIdx,         \* findExternalImages: index of the candidate being probed
    externalImages,    \* processContent: externalImages (verified matches)
    imgIdx,            \* processContent: index of the image in the for loop
    tempPath,          \* processContent: tempPath of the current image
    modal,             \* prompt open: "none", "rename", "descriptive"
    finalPath,         \* renameImageFile: finalPath of the rename in flight
    writes,            \* history: vault.modify calls made by the current processFile
    headLog,           \* history: HEAD response per candidate probed
    prompts,           \* history: prompts opened by the current processFile
    status,            \* history: per verified image, how its cycle ended
    created,           \* history: per verified image, the temp path created ("" none)
    getFailed,         \* history: verified images whose GET response was an HTTP
                       \* error or declared no image content-type
    processed,         \* history: documents whose processFile call has returned
    dedupCall,         \* getAvailablePath applied on its own: the call's arguments
    dedupResult,       \* ... and the path it returned ("" before any call)
    scanText,          \* the scanner applied on its own: the text scanned
    scanCandidates,    \* ... and, once scanned, <<the positions of the references kept>>
    getResponse,       \* downloadAndSave's tail applied on its own: the GET response
    getUrl,            \* ... and the URL the GET was sent to
    insOp,             \* single-image insertion: the operation called ("none" before any)
    insProperty,       \* ... isPropertyInsertion / options.insertToProperty
    insPc,             \* ... the await the operation stands at
    insTemp,           \* ... the temp file (renameImageFile: the file to rename)
    insExt,            \* ... the extension
    insModal,          \* ... the prompt that is open
    insFinal,          \* ... finalPath
    insDisplay,        \* ... displayText
    insCancelled,      \* ... the user cancelled the prompt
    insReturned,       \* ... "no", "null" or "image": what the operation returned
    insResult,         \* ... the ProcessedImage returned
    insThrown,         \* ... the message of the Error insertImageFromUrl threw
    insNotices,        \* ... the notices shown
    insInserted,       \* ... the link text put at the cursor, or the property value
    racePc,            \* two passes at once: the await each pass stands at
    racePath,          \* ... the path getAvailablePath last returned to each pass
    raceTemp,          \* ... the temp file each pass created ("" if none)
    raceAttempts,      \* ... the creates and renames attempted: pass, operation, path, and
                       \*     whether the path existed at that moment
    currentQuery,      \* RemoteSearchModal.currentQuery
    currentPage,       \* RemoteSearchModal.currentPage
    isLoading,         \* RemoteSearchModal.isLoading
    currentResults,    \* RemoteSearchModal.currentResults: query and page they answer, length
    searchRequest,     \* ... the remoteService.search call in flight (page 0: none)
    displayed,         \* ... the results the list shows (page 0: none)
    buttons,           \* ... the pagination buttons rendered
    lastClick,         \* ... the last pagination click: the button, the page shown at the
                       \*     click, the page then requested (0: no request)
    mdxFile,           \* processMdxFrontMatter: the file (extension, frontmatter block, body)
    mdxOriginal,       \* ... the file as it was before the call
    mdxCall,           \* ... the property the callback sets, and its value
    mdxPc,             \* ... the await the call stands at
    mdxNewContent      \* ... newContent

envVars  == <<settings, useMarkdownLinks, docs, files>>
ctlVars  == <<trigger, pc, fileIdx, totalCount, retval, processed>>
passVars == <<isBackground, content, newContent, count, candidateMatches,
              verifyIdx, externalImages, imgIdx, tempPath, modal, finalPath>>
histVars == <<writes, headLog, prompts, status, created, getFailed>>
dedupVars == <<dedupCall, dedupResult>>
scanVars  == <<scanText, scanCandidates>>
mimeVars  == <<getResponse, getUrl>>
insVars   == <<insOp, insProperty, insPc, insTemp, insExt, insModal, insFinal, insDisplay,
               insCancelled, insReturned, insResult, insThrown, insNotices, insInserted>>
raceVars  == <<racePc, racePath, raceTemp, raceAttempts>>
searchVars == <<currentQuery, currentPage, isLoading, currentResults, searchRequest,
                displayed, buttons, lastClick>>
mdxVars   == <<mdxFile, mdxOriginal, mdxCall, mdxPc, mdxNewContent>>
extraVars == <<insVars, raceVars, searchVars, mdxVars>>
pureVars  == <<dedupVars, scanVars, mimeVars, extraVars>>
restIns   == <<settings, useMarkdownLinks, docs, ctlVars, passVars, histVars,
               dedupVars, scanVars, mimeVars, raceVars, searchVars, mdxVars>>
restRace  == <<settings, useMarkdownLinks, docs, ctlVars, passVars, histVars,
               dedupVars, scanVars, mimeVars, insVars, searchVars, mdxVars>>
restSearch == <<envVars, ctlVars, passVars, histVars, dedupVars, scanVars, mimeVars,
                insVars, raceVars, mdxVars>>
restMdx   == <<envVars, ctlVars, passVars, histVars, dedupVars, scanVars, mimeVars,
               insVars, raceVars, searchVars>>
vars     == <<envVars, ctlVars, passVars, histVars, pureVars>>

DefaultDelimiter == "-"

NoCall == [baseName |-> "", extension |-> ""]

NoResponse == Response(0, {})

SettingsChoices ==
    { [autoRename |-> ar, enableDescriptiveImages |-> di, dupNumberAtStart |-> ds,
       dupNumberDelimiter |-> DefaultDelimiter,
       attachmentLocation |-> al, customAttachmentPath |-> "./assets",
       supportedExtensions |-> {"md", "mdx"},
       autoConvertRemoteImages |-> TRUE, convertOnNoteOpen |-> TRUE] :
      ar \in BOOLEAN, di \in BOOLEAN, ds \in BOOLEAN,
      al \in {"ObsidianDefault", "SameFolder"} }

\* DEFAULT_SETTINGS
DefaultSettings ==
    {s \in SettingsChoices :
        /\ ~ s.autoRename /\ ~ s.enableDescriptiveImages /\ ~ s.dupNumberAtStart
        /\ s.attachmentLocation = "ObsidianDefault"}

DocChoices ==
    {[extension |-> "md", content |-> c] : c \in DocContents}
    \cup {[extension |-> "mdx", content |-> <<MdSpan("", UrlPhoto, FALSE)>>]}

\* the documents beyond the first are drawn from a smaller set
OtherDocChoices ==
    { [extension |-> "md", content |-> <<TextSpan("notes", FALSE)>>],
      [extension |-> "md", content |-> <<MdSpan("", UrlPhoto, FALSE)>>],
      [extension |-> "mdx", content |-> <<MdSpan("", UrlPhoto, FALSE)>>] }

\* asset names that may already lie in the attachment folder
InitialAssets(st) ==
    { {}, {"photo.png"}, {"photo.png", dupFileName(st, "photo", "png", 1)} }

\* ProcessedImage before any is returned
NoImage == [file |-> "", path |-> "", linkText |-> "", success |-> FALSE, error |-> ""]

\* no insertion has been called
InsIdle ==
    /\ insOp = "none"
    /\ insProperty = FALSE
    /\ insPc = "idle"
    /\ insTemp = ""
    /\ insExt = ""
    /\ insModal = "none"
    /\ insFinal = ""
    /\ insDisplay = ""
    /\ insCancelled = FALSE
    /\ insReturned = "no"
    /\ insResult = NoImage
    /\ insThrown = ""
    /\ insNotices = {}
    /\ insInserted = ""

\* the passes that run at once
Passes == {1, 2}

\* no pass has got its image yet
RaceIdle ==
    /\ racePc = [p \in Passes |-> "get"]
    /\ racePath = [p \in Passes |-> ""]
    /\ raceTemp = [p \in Passes |-> ""]
    /\ raceAttempts = {}

NoResults == [query |-> "", page |-> 0, length |-> 0]
NoRequest == [query |-> "", page |-> 0]
NoClick == [button |-> "none", shown |-> 0, requested |-> 0]

\* the remote search modal as constructed
SearchIdle ==
    /\ currentQuery = ""
    /\ currentPage = 1
    /\ isLoading = FALSE
    /\ currentResults = NoResults
    /\ searchRequest = NoRequest
    /\ displayed = NoResults
    /\ buttons = {}
    /\ lastClick = NoClick

\* a file: hasFront tells whether the text starts with a frontmatter block,
\* front is the block's text line by line, body the text after the block
NoFile == [extension |-> "", hasFront |-> FALSE, front |-> << >>, body |-> ""]

NoProperty == [name |-> "", value |-> ""]

\* processMdxFrontMatter has not been called
MdxIdle ==
    /\ mdxFile = NoFile
    /\ mdxOriginal = NoFile
    /\ mdxCall = NoProperty
    /\ mdxPc = "idle"
    /\ mdxNewContent = NoFile

\* no conversion run has started
Idle ==
    /\ trigger = "none"
    /\ pc = "idle"
    /\ fileIdx = 0
    /\ totalCount = 0
    /\ retval = -1
    /\ processed = {}
    /\ isBackground = FALSE
    /\ content = << >>
    /\ newContent = << >>
    /\ count = 0
    /\ candidateMatches = << >>
    /\ verifyIdx = 0
    /\ externalImages = << >>
    /\ imgIdx = 0
    /\ tempPath = ""
    /\ modal = "none"
    /\ finalPath = ""
    /\ writes = 0
    /\ headLog = << >>
    /\ prompts = 0
    /\ status = << >>
    /\ created = << >>
    /\ getFailed = {}
    /\ dedupCall = NoCall
    /\ dedupResult = ""
    /\ scanText = << >>
    /\ scanCandidates = << >>
    /\ getResponse = NoResponse
    /\ getUrl = NoUrl
    /\ InsIdle
    /\ RaceIdle
    /\ SearchIdle
    /\ MdxIdle

Init ==
    /\ settings \in SettingsChoices
    /\ useMarkdownLinks \in BOOLEAN
    /\ docs \in [DocIds -> DocChoices]
    /\ \A d \in DocIds \ {1} : docs[d] \in OtherDocChoices
    /\ \E names \in InitialAssets(settings) :
          files = {pathInFolder(getAttachmentFolder(settings, docPath(1, "md")), n) : n \in names}
    /\ Idle

notePath == docPath(fileIdx, docs[fileIdx].extension)

(***************************************************************************)
(* Control flow shared by the steps                                        *)
(***************************************************************************)
\* vault.getMarkdownFiles(): the documents with extension md
getMarkdownFiles == {d \in DocIds : docs[d].extension = "md"}

\* processAllFiles: the next file of the loop, after document d, that passes
\* the supportedExtensions test (0: the loop is over)
nextFile(d) ==
    LET rest == {e \in getMarkdownFiles :
                    e > d /\ docs[e].extension \in settings.supportedExtensions}
    IN  IF rest = {} THEN 0 ELSE CHOOSE e \in rest : \A f \in rest : e <= f

\* processFile is entered for document d: up to its first await (vault.read)
EnterFile(d, bg) ==
    /\ fileIdx' = d
    /\ isBackground' = bg
    /\ pc' = "read"
    /\ content' = << >>
    /\ newContent' = << >>
    /\ count' = 0
    /\ candidateMatches' = << >>
    /\ verifyIdx' = 0
    /\ externalImages' = << >>
    /\ imgIdx' = 0
    /\ tempPath' = ""
    /\ modal' = "none"
    /\ finalPath' = ""
    /\ writes' = 0
    /\ headLog' = << >>
    /\ prompts' = 0
    /\ status' = << >>
    /\ created' = << >>
    /\ getFailed' = {}

\* mutant: processFile writes the document back whatever the count
BeginImage_AlwaysWrite(imgs, i, cnt, st) ==
    IF i > Len(imgs)
    THEN /\ imgIdx' = i
         /\ status' = st
         /\ pc' = "write"
    ELSE /\ imgIdx' = i
         /\ status' = st
         /\ pc' = "download"

\* mutant: the loop starts image i + 1 without waiting for image i
BeginImage_NoAwait(imgs, i, cnt, st) ==
    IF i > Len(imgs)
    THEN /\ imgIdx' = i
         /\ status' = st
         /\ pc' = IF cnt > 0 THEN "write" ELSE "returned"
    ELSE /\ imgIdx' = IF i < Len(imgs) THEN i + 1 ELSE i
         /\ status' = st
         /\ pc' = "download"

\* processContent's for loop arrives at image i of imgs with count cnt and
\* history st: the code runs on to its next await (the GET of image i, the
\* vault.modify of processFile) or to processFile's return
BeginImage(imgs, i, cnt, st) ==
    IF i > Len(imgs)
    THEN /\ imgIdx' = i
         /\ status' = st
         /\ pc' = IF cnt > 0 THEN "write" ELSE "returned"
    ELSE IF isBackground /\ ~ settings.autoRename
    THEN /\ imgIdx' = Len(imgs) + 1
         /\ status' = [k \in 1..Len(imgs) |-> IF k >= i THEN "bgskip" ELSE st[k]]
         /\ pc' = IF cnt > 0 THEN "write" ELSE "returned"
    ELSE /\ imgIdx' = i
         /\ status' = st
         /\ pc' = "download"

\* processContent: suggestedName of the current image
suggestedName(image, temp) ==
    IF image.alt # "" THEN sanitizeFileName(image.alt) ELSE fileBasename(temp)

\* names and descriptions the user may type into a prompt: the rename prompt
\* is confirmed with the suggested name left as it is, or with "photo"
UserNames(suggested) == {"photo"} \cup ({suggested} \ {""})
UserDescriptions == {"Sun Set!"}

(***************************************************************************)
(* Entry points                                                            *)
(***************************************************************************)
\* command 'convert-remote-images' on document d
StartCommand(d) ==
    /\ pc = "idle"
    /\ UNCHANGED pureVars
    /\ trigger' = "command"
    /\ IF isMarkdownFile(docs[d].extension)
       THEN EnterFile(d, FALSE)
       ELSE /\ fileIdx' = d
            /\ pc' = "returned"
            /\ UNCHANGED <<passVars, histVars>>
    /\ UNCHANGED <<envVars, totalCount, retval, processed>>

\* workspace 'file-open' handler on document d
FileOpen(d) ==
    /\ pc = "idle"
    /\ UNCHANGED pureVars
    /\ settings.autoConvertRemoteImages /\ settings.convertOnNoteOpen
    /\ docs[d].extension \in settings.supportedExtensions
    /\ trigger' = "fileopen"
    /\ IF isMarkdownFile(docs[d].extension)
       THEN EnterFile(d, FALSE)
       ELSE /\ fileIdx' = d
            /\ pc' = "returned"
            /\ UNCHANGED <<passVars, histVars>>
    /\ UNCHANGED <<envVars, totalCount, retval, processed>>

\* command 'convert-all-remote-images': processAllFiles up to its first await
StartAll ==
    /\ pc = "idle"
    /\ UNCHANGED pureVars
    /\ trigger' = "all"
    /\ totalCount' = 0
    /\ IF nextFile(0) = 0
       THEN /\ pc' = "done"
            /\ retval' = 0
            /\ UNCHANGED <<fileIdx, passVars, histVars>>
       ELSE /\ EnterFile(nextFile(0), FALSE)
            /\ retval' = retval
    /\ UNCHANGED <<envVars, processed>>

(***************************************************************************)
(* processFile / processContent, one step per await                        *)
(***************************************************************************)
\* vault.read resolves or rejects; on success the scan runs and the first
\* HEAD probe is issued
ReadFile ==
    /\ pc = "read"
    /\ UNCHANGED <<getFailed, pureVars>>
    /\ \E ok \in BOOLEAN :
         IF ok
         THEN /\ content' = docs[fileIdx].content
              /\ newContent' = docs[fileIdx].content
              /\ candidateMatches' = candidatesOf(docs[fileIdx].content)
              /\ IF candidateMatches' = << >>
                 THEN /\ verifyIdx' = verifyIdx
                      /\ BeginImage(<< >>, 1, 0, << >>)
                 ELSE /\ verifyIdx' = 1
                      /\ pc' = "verify"
                      /\ UNCHANGED <<imgIdx, status>>
         ELSE /\ pc' = "failed"
              /\ UNCHANGED <<content, newContent, candidateMatches, verifyIdx,
                             imgIdx, status>>
    /\ UNCHANGED <<envVars, trigger, fileIdx, totalCount, retval, processed,
                   isBackground, count, externalImages, tempPath, modal, finalPath,
                   writes, headLog, prompts, created>>

\* the HEAD probe of candidate verifyIdx resolves or rejects
VerifyUrl ==
    /\ pc = "verify"
    /\ UNCHANGED <<getFailed, pureVars>>
    /\ \E r \in HeadOutcomes :
         LET imgs == IF verifyImageUrl(r)
                     THEN Append(externalImages, candidateMatches[verifyIdx])
                     ELSE externalImages
         IN  /\ headLog' = Append(headLog, r)
             /\ externalImages' = imgs
             /\ verifyIdx' = verifyIdx + 1
             /\ IF verifyIdx < Len(candidateMatches)
                THEN UNCHANGED <<pc, imgIdx, status, created>>
                ELSE /\ created' = [k \in 1..Len(imgs) |-> ""]
                     /\ BeginImage(imgs, 1, 0, [k \in 1..Len(imgs) |-> "pending"])
    /\ UNCHANGED <<envVars, trigger, fileIdx, totalCount, retval, processed,
                   isBackground, content, newContent, count, candidateMatches,
                   tempPath, modal, finalPath, writes, prompts>>

\* history only: the GET responses that are a failure of the download, an
\* HTTP error status or a content-type that is not image/...
IsFailedGet(r) ==
    /\ ~ r.threw
    /\ \/ r.status >= 400
       \/ \A h \in r.headers : ~ startsWith(toLowerCase(h), "image/")

\* downloadAndSave: the GET of image imgIdx resolves or rejects
Download ==
    /\ pc = "download"
    /\ UNCHANGED pureVars
    /\ \E r \in GetOutcomes :
       /\ getFailed' = IF IsFailedGet(r) THEN getFailed \cup {imgIdx} ELSE getFailed
       /\ IF downloadAccepted(r)
         THEN /\ tempPath' = getAvailablePath(files, settings,
                                 urlBaseName(externalImages[imgIdx].url),
                                 getExtensionFromMimeType(contentTypeOf(r)), notePath)
              /\ pc' = "save"
              /\ UNCHANGED <<imgIdx, status>>
         ELSE /\ tempPath' = ""
              /\ BeginImage(externalImages, imgIdx + 1, count,
                            [status EXCEPT ![imgIdx] = "dlfail"])
    /\ UNCHANGED <<envVars, trigger, fileIdx, totalCount, retval, processed,
                   isBackground, content, newContent, count, candidateMatches,
                   verifyIdx, externalImages, modal, finalPath, writes, headLog,
                   prompts, created>>

\* saveFile: createBinary resolves; renameImageFile runs to its first await
\* (a prompt, or the rename itself under automatic naming)
SaveFile ==
    /\ pc = "save"
    /\ UNCHANGED <<getFailed, pureVars>>
    /\ files' = files \cup {tempPath}
    /\ created' = [created EXCEPT ![imgIdx] = tempPath]
    /\ IF settings.enableDescriptiveImages
       THEN /\ modal' = "descriptive"
            /\ prompts' = prompts + 1
            /\ pc' = "modal"
            /\ finalPath' = finalPath
       ELSE IF ~ settings.autoRename
       THEN /\ modal' = "rename"
            /\ prompts' = prompts + 1
            /\ pc' = "modal"
            /\ finalPath' = finalPath
       ELSE /\ finalPath' = getAvailablePath(files \cup {tempPath}, settings,
                                suggestedName(externalImages[imgIdx], tempPath),
                                fileExtension(tempPath), notePath)
            /\ pc' = "renaming"
            /\ UNCHANGED <<modal, prompts>>
    /\ UNCHANGED <<settings, useMarkdownLinks, docs, trigger, fileIdx, totalCount,
                   retval, processed, isBackground, content, newContent, count,
                   candidateMatches, verifyIdx, externalImages, imgIdx, tempPath,
                   writes, headLog, status>>

\* the user confirms the prompt (RenameModal.submit / DescriptiveImageModal.submit)
ModalSubmit ==
    /\ pc = "modal"
    /\ UNCHANGED pureVars
    /\ \E finalName \in IF modal = "rename"
                        THEN UserNames(suggestedName(externalImages[imgIdx], tempPath))
                        ELSE {toKebabCase(x) : x \in UserDescriptions} :
         finalPath' = getAvailablePath(files, settings, finalName,
                                       fileExtension(tempPath), notePath)
    /\ modal' = "none"
    /\ pc' = "renaming"
    /\ UNCHANGED <<envVars, trigger, fileIdx, totalCount, retval, processed,
                   isBackground, content, newContent, count, candidateMatches,
                   verifyIdx, externalImages, imgIdx, tempPath, histVars>>

\* mutant: on cancel the loop continues without trashing the temp file
ModalCancel_NoTrash ==
    /\ pc = "modal"
    /\ UNCHANGED <<getFailed, pureVars>>
    /\ modal' = "none"
    /\ BeginImage(externalImages, imgIdx + 1, count,
                  [status EXCEPT ![imgIdx] = "cancelled"])
    /\ UNCHANGED <<envVars, trigger, fileIdx, totalCount, retval, processed,
                   isBackground, content, newContent, count, candidateMatches,
                   verifyIdx, externalImages, tempPath, finalPath,
                   writes, headLog, prompts, created>>

\* the user cancels the prompt (cancel()): renameImageFile returns null and
\* processContent trashes the temp file
ModalCancel ==
    /\ pc = "modal"
    /\ UNCHANGED <<getFailed, pureVars>>
    /\ modal' = "none"
    /\ status' = [status EXCEPT ![imgIdx] = "cancelled"]
    /\ pc' = "trash"
    /\ UNCHANGED <<envVars, trigger, fileIdx, totalCount, retval, processed,
                   isBackground, content, newContent, count, candidateMatches,
                   verifyIdx, externalImages, imgIdx, tempPath, finalPath,
                   writes, headLog, prompts, created>>

\* the user closes the prompt without a button (Escape): onClose runs, the
\* promise of openRenameModal / openDescriptiveImageModal never settles
ModalDismiss ==
    /\ pc = "modal"
    /\ UNCHANGED pureVars
    /\ modal' = "none"
    /\ pc' = "hung"
    /\ UNCHANGED <<envVars, trigger, fileIdx, totalCount, retval, processed,
                   isBackground, content, newContent, count, candidateMatches,
                   verifyIdx, externalImages, imgIdx, tempPath, finalPath, histVars>>

\* mutant: a failed rename goes on to the next image, the temp file stays
RenameFile_LeavesTemp ==
    /\ pc = "renaming"
    /\ UNCHANGED <<getFailed, pureVars>>
    /\ \E ok \in BOOLEAN :
         IF ok
         THEN /\ files' = (files \ {tempPath}) \cup {finalPath}
              /\ newContent' = replaceFirst(newContent, externalImages[imgIdx].fullMatch,
                                   replacement(externalImages[imgIdx], finalPath,
                                               useMarkdownLinks))
              /\ count' = count + 1
              /\ BeginImage(externalImages, imgIdx + 1, count + 1,
                            [status EXCEPT ![imgIdx] = "converted"])
         ELSE /\ BeginImage(externalImages, imgIdx + 1, count,
                            [status EXCEPT ![imgIdx] = "renamefail"])
              /\ UNCHANGED <<files, newContent, count>>
    /\ UNCHANGED <<settings, useMarkdownLinks, docs, trigger, fileIdx, totalCount,
                   retval, processed, isBackground, content, candidateMatches,
                   verifyIdx, externalImages, tempPath, modal, finalPath, writes,
                   headLog, prompts, created>>

\* fileManager.renameFile resolves or rejects; processContent substitutes the
\* match or goes on to trash the temp file
RenameFile ==
    /\ pc = "renaming"
    /\ UNCHANGED <<getFailed, pureVars>>
    /\ \E ok \in BOOLEAN :
         IF ok
         THEN /\ files' = (files \ {tempPath}) \cup {finalPath}
              /\ newContent' = replaceFirst(newContent, externalImages[imgIdx].fullMatch,
                                   replacement(externalImages[imgIdx], finalPath,
                                               useMarkdownLinks))
              /\ count' = count + 1
              /\ BeginImage(externalImages, imgIdx + 1, count + 1,
                            [status EXCEPT ![imgIdx] = "converted"])
         ELSE /\ status' = [status EXCEPT ![imgIdx] = "renamefail"]
              /\ pc' = "trash"
              /\ UNCHANGED <<files, newContent, count, imgIdx>>
    /\ UNCHANGED <<settings, useMarkdownLinks, docs, trigger, fileIdx, totalCount,
                   retval, processed, isBackground, content, candidateMatches,
                   verifyIdx, externalImages, tempPath, modal, finalPath, writes,
                   headLog, prompts, created>>

\* mutant: after the temp file is trashed the loop is left (break for continue)
TrashFile_LeavesLoop ==
    /\ pc = "trash"
    /\ UNCHANGED <<getFailed, pureVars>>
    /\ files' = files \ {tempPath}
    /\ BeginImage(externalImages, Len(externalImages) + 1, count, status)
    /\ UNCHANGED <<settings, useMarkdownLinks, docs, trigger, fileIdx, totalCount,
                   retval, processed, isBackground, content, newContent, count,
                   candidateMatches, verifyIdx, externalImages, tempPath, modal,
                   finalPath, writes, headLog, prompts, created>>

\* fileManager.trashFile(tempFile) resolves; the loop continues
TrashFile ==
    /\ pc = "trash"
    /\ UNCHANGED <<getFailed, pureVars>>
    /\ files' = files \ {tempPath}
    /\ BeginImage(externalImages, imgIdx + 1, count, status)
    /\ UNCHANGED <<settings, useMarkdownLinks, docs, trigger, fileIdx, totalCount,
                   retval, processed, isBackground, content, newContent, count,
                   candidateMatches, verifyIdx, externalImages, tempPath, modal,
                   finalPath, writes, headLog, prompts, created>>

\* vault.modify(file, newContent) resolves or rejects
WriteFile ==
    /\ pc = "write"
    /\ UNCHANGED <<getFailed, pureVars>>
    /\ writes' = writes + 1
    /\ \E ok \in BOOLEAN :
         IF ok
         THEN /\ docs' = [docs EXCEPT ![fileIdx].content = newContent]
              /\ pc' = "returned"
         ELSE /\ docs' = docs
              /\ pc' = "failed"
    /\ UNCHANGED <<settings, useMarkdownLinks, files, trigger, fileIdx, totalCount,
                   retval, processed, passVars, headLog, prompts, status,
                   created>>

\* processFile has returned count: its caller resumes (processAllFiles adds
\* the count and goes on with the next file; the other callers finish)
CallerResumes ==
    /\ pc = "returned"
    /\ UNCHANGED pureVars
    /\ processed' = processed \cup {fileIdx}
    /\ IF trigger = "all"
       THEN /\ totalCount' = totalCount + count
            /\ IF nextFile(fileIdx) # 0
               THEN /\ EnterFile(nextFile(fileIdx), FALSE)
                    /\ retval' = retval
               ELSE /\ pc' = "done"
                    /\ retval' = totalCount + count
                    /\ UNCHANGED <<fileIdx, passVars, histVars>>
       ELSE /\ pc' = "done"
            /\ retval' = count
            /\ UNCHANGED <<totalCount, fileIdx, passVars, histVars>>
    /\ UNCHANGED <<envVars, trigger>>

Next ==
    \/ \E d \in DocIds : StartCommand(d)
    \/ \E d \in DocIds : FileOpen(d)
    \/ StartAll
    \/ ReadFile
    \/ VerifyUrl
    \/ Download
    \/ SaveFile
    \/ ModalSubmit
    \/ ModalCancel
    \/ ModalDismiss
    \/ RenameFile
    \/ TrashFile
    \/ WriteFile
    \/ CallerResumes

Spec == Init /\ [][Next]_vars

(***************************************************************************)
(* The pass among other activity.  While a pass waits at an await the user *)
(* may change the attachment location in the settings tab (the services    *)
(* share the plugin's settings object), and another writer may modify the  *)
(* document the pass has read.                                             *)
(***************************************************************************)
\* the awaits of a pass
Awaits == {"read", "verify", "download", "save", "modal", "renaming", "trash", "write"}

\* the text another writer adds to a document
EditSpan == TextSpan("edited meanwhile", FALSE)

HasEdit(d) == \E k \in 1..Len(docs[d].content) : docs[d].content[k] = EditSpan

\* settings tab: the attachment-location dropdown changes, saveSettings runs
UpdateSettings ==
    /\ pc \in Awaits
    /\ \E al \in {"ObsidianDefault", "SameFolder"} \ {settings.attachmentLocation} :
          settings' = [settings EXCEPT !.attachmentLocation = al]
    /\ UNCHANGED <<useMarkdownLinks, docs, files, ctlVars, passVars, histVars, pureVars>>

\* another writer appends text to the document after the pass has read it
ExternalEdit ==
    /\ pc \in Awaits \ {"read"}
    /\ ~ HasEdit(fileIdx)
    /\ docs' = [docs EXCEPT ![fileIdx].content = Append(@, EditSpan)]
    /\ UNCHANGED <<settings, useMarkdownLinks, files, ctlVars, passVars, histVars, pureVars>>

ConcurrentDocChoices ==
    { [extension |-> "md", content |-> <<MdSpan("", UrlPhoto, FALSE)>>],
      [extension |-> "md",
       content |-> <<MdSpan("sun set", UrlPhoto, FALSE), HtmlSpan(UrlCat, FALSE)>>] }

InitConcurrent ==
    /\ settings \in SettingsChoices
    /\ useMarkdownLinks = FALSE
    /\ docs \in [DocIds -> ConcurrentDocChoices \cup OtherDocChoices]
    /\ docs[1] \in ConcurrentDocChoices
    /\ \A d \in DocIds \ {1} : docs[d] \in OtherDocChoices
    /\ files = {}
    /\ Idle

NextConcurrent ==
    \/ Next
    \/ UpdateSettings
    \/ ExternalEdit

SpecConcurrent == InitConcurrent /\ [][NextConcurrent]_vars

(***************************************************************************)
(* getAvailablePath on its own: the vault holds any subset of the names a  *)
(* "photo" asset can collide with, the function is applied to a base name  *)
(* and the asset is then created at the path returned (saveFile), so that  *)
(* the next call sees it.                                                  *)
(***************************************************************************)
DedupBaseNames == {"photo", "my:photo"}

DedupInitialNames(st) ==
    {dupFileName(st, "photo", "png", k) : k \in 0..2} \cup {"photo-1.png", "1-photo.png"}

InitDedup ==
    /\ settings \in SettingsChoices
    /\ useMarkdownLinks = FALSE
    /\ docs = [d \in DocIds |-> [extension |-> "md", content |-> <<TextSpan("notes", FALSE)>>]]
    /\ \E names \in SUBSET DedupInitialNames(settings) :
          files = {pathInFolder(getAttachmentFolder(settings, docPath(1, "md")), n) : n \in names}
    /\ Idle

\* storageManager.getAvailablePath(baseName, "png", note 1)
DedupApply(baseName) ==
    /\ dedupResult = ""
    /\ Cardinality(files) < MaxAssets
    /\ dedupCall' = [baseName |-> baseName, extension |-> "png"]
    /\ dedupResult' = getAvailablePath(files, settings, baseName, "png", docPath(1, "md"))
    /\ UNCHANGED <<envVars, ctlVars, passVars, histVars, scanVars, mimeVars, extraVars>>

\* storageManager.saveFile(data, filePath) with the path just returned
DedupSave ==
    /\ dedupResult # ""
    /\ files' = files \cup {dedupResult}
    /\ dedupCall' = NoCall
    /\ dedupResult' = ""
    /\ UNCHANGED <<settings, useMarkdownLinks, docs, ctlVars, passVars, histVars, scanVars, mimeVars, extraVars>>

NextDedup ==
    \/ \E baseName \in DedupBaseNames : DedupApply(baseName)
    \/ DedupSave

SpecDedup == InitDedup /\ [][NextDedup]_vars

(***************************************************************************)
(* The scanner's code-region test on its own:                              *)
(* LocalConversionService.isInsideCodeBlock on a text.  The text is a      *)
(* sequence of characters: "bt" is the backtick, "nl" the line break, "a"  *)
(* any other character; "I" stands for a whole remote image reference (the *)
(* position the markdown regex matched at), which holds neither a backtick *)
(* nor a line break.                                                       *)
(***************************************************************************)
MaxSegs == 7

\* the pieces a text is put together from
Segments == { <<"bt", "bt", "bt">>, <<"bt">>, <<"a">>, <<"nl">>, <<"I">> }

RECURSIVE Flatten(_)
Flatten(segs) ==
    IF segs = << >> THEN << >> ELSE Head(segs) \o Flatten(Tail(segs))

\* three backticks at positions i, i+1, i+2
IsFence(text, i) ==
    /\ i + 2 <= Len(text)
    /\ text[i] = "bt" /\ text[i + 1] = "bt" /\ text[i + 2] = "bt"

\* the lazy [\s\S]*? of the fence regex: the first fence at or after i + 3
\* (0: none)
fenceClose(text, i) ==
    LET closes == {j \in (i + 3)..Len(text) : IsFence(text, j)}
    IN  IF closes = {} THEN 0 ELSE CHOOSE j \in closes : \A l \in closes : j <= l

\* the matches of /```[\s\S]*?```/g from position p on, as [start, end]
RECURSIVE fencedMatches(_, _)
fencedMatches(text, p) ==
    IF p > Len(text) THEN {}
    ELSE IF IsFence(text, p) /\ fenceClose(text, p) # 0
         THEN {[start |-> p, end |-> fenceClose(text, p) + 2]}
              \cup fencedMatches(text, fenceClose(text, p) + 3)
         ELSE fencedMatches(text, p + 1)

\* fencedPositions: the positions covered by a fence match
fencedPositions(text) ==
    {i \in 1..Len(text) : \E m \in fencedMatches(text, 1) : m.start <= i /\ i <= m.end}

\* the end of the greedy run [^`\n]+ that starts at position i (i - 1: the
\* run is empty)
RECURSIVE plainRunEnd(_, _)
plainRunEnd(text, i) ==
    IF i <= Len(text) /\ text[i] \notin {"bt", "nl"}
    THEN plainRunEnd(text, i + 1)
    ELSE i - 1

\* the matches of /`[^`\n]+`/g from position p on, as [start, end]
RECURSIVE inlineMatches(_, _)
inlineMatches(text, p) ==
    IF p > Len(text) THEN {}
    ELSE IF /\ text[p] = "bt"
            /\ plainRunEnd(text, p + 1) >= p + 1
            /\ plainRunEnd(text, p + 1) + 1 <= Len(text)
            /\ text[plainRunEnd(text, p + 1) + 1] = "bt"
         THEN {[start |-> p, end |-> plainRunEnd(text, p + 1) + 1]}
              \cup inlineMatches(text, plainRunEnd(text, p + 1) + 2)
         ELSE inlineMatches(text, p + 1)

\* isInsideCodeBlock(content, position) on a text
isInsideCodeBlockAt(text, position) ==
    \/ \E m \in fencedMatches(text, 1) : m.start <= position /\ position <= m.end
    \/ \E m \in inlineMatches(text, 1) :
          /\ m.start \notin fencedPositions(text)
          /\ m.start <= position /\ position <= m.end

\* findExternalImages: the positions of the references the scan keeps
scanCandidatesOf(text) ==
    {p \in 1..Len(text) : text[p] = "I" /\ ~ isInsideCodeBlockAt(text, p)}

InitScan ==
    /\ settings \in {s \in SettingsChoices :
                        /\ ~ s.autoRename /\ ~ s.enableDescriptiveImages
                        /\ ~ s.dupNumberAtStart
                        /\ s.attachmentLocation = "ObsidianDefault"}
    /\ useMarkdownLinks = FALSE
    /\ docs = [d \in DocIds |-> [extension |-> "md", content |-> <<TextSpan("notes", FALSE)>>]]
    /\ files = {}
    /\ Idle

\* a text is handed to the scanner
ScanText ==
    /\ scanText = << >>
    /\ \E n \in 1..MaxSegs : \E segs \in [1..n -> Segments] :
          scanText' = Flatten(segs)
    /\ scanCandidates' = << >>
    /\ UNCHANGED <<envVars, ctlVars, passVars, histVars, dedupVars, mimeVars, extraVars>>

\* the two regex scans run over the text
ScanApply ==
    /\ scanText # << >>
    /\ scanCandidates = << >>
    /\ scanCandidates' = <<scanCandidatesOf(scanText)>>
    /\ UNCHANGED <<envVars, ctlVars, passVars, histVars, dedupVars, mimeVars, scanText, extraVars>>

NextScan ==
    \/ ScanText
    \/ ScanApply

SpecScan == InitScan /\ [][NextScan]_vars

(***************************************************************************)
(* downloadAndSave from the response on, on its own: the content-type      *)
(* check, the extension, the path, the file.  The responses declare every  *)
(* type of the MIME table as the table spells it, a type the table does    *)
(* not hold, no image type, and types of the table spelt as servers also   *)
(* send them: in capitals, or followed by a parameter.                     *)
(***************************************************************************)
MimeOutcomes ==
    {Response(200, {m}) : m \in DOMAIN mimeToExt}
    \cup {Response(200, {"application/octet-stream"}),
          Response(200, {"image/x-icon"}),
          Response(200, {"IMAGE/JPEG"}),
          Response(200, {"image/svg+xml; charset=utf-8"})}

InitMime ==
    /\ settings \in SettingsChoices
    /\ useMarkdownLinks = FALSE
    /\ docs = [d \in DocIds |-> [extension |-> "md", content |-> <<MdSpan("", UrlPhoto, FALSE)>>]]
    /\ files = {}
    /\ Idle

\* the GET of the image at u resolves with r: content-type check, extension
\* from the content-type, base name from the URL, getAvailablePath
downloadTail(u, r) ==
    /\ dedupResult = ""
    /\ Cardinality(files) < MaxAssets
    /\ getResponse' = r
    /\ getUrl' = u
    /\ IF downloadAccepted(r)
       THEN /\ dedupCall' = [baseName |-> urlBaseName(u),
                             extension |-> getExtensionFromMimeType(contentTypeOf(r))]
            /\ dedupResult' = getAvailablePath(files, settings, urlBaseName(u),
                                  getExtensionFromMimeType(contentTypeOf(r)),
                                  docPath(1, "md"))
       ELSE /\ dedupCall' = NoCall
            /\ dedupResult' = ""
    /\ UNCHANGED <<envVars, ctlVars, passVars, histVars, scanVars, extraVars>>

MimeDownload == \E r \in MimeOutcomes : downloadTail(UrlPhoto, r)

\* storageManager.saveFile(arrayBuffer, filePath)
MimeSave ==
    /\ dedupResult # ""
    /\ files' = files \cup {dedupResult}
    /\ dedupCall' = NoCall
    /\ dedupResult' = ""
    /\ getResponse' = NoResponse
    /\ getUrl' = NoUrl
    /\ UNCHANGED <<settings, useMarkdownLinks, docs, ctlVars, passVars, histVars, scanVars, extraVars>>

NextMime ==
    \/ MimeDownload
    \/ MimeSave

SpecMime == InitMime /\ [][NextMime]_vars

(***************************************************************************)
(* downloadAndSave from the response on, over the URLs: one with a named   *)
(* last segment, one whose path ends in "/", one whose last segment starts *)
(* with ".".                                                               *)
(***************************************************************************)
UrlChoices == {UrlPhoto, UrlFolder, UrlHidden}

UrlOutcomes == {Response(200, {"image/png"}), Response(404, {"image/png"})}

UrlDownload == \E u \in UrlChoices, r \in UrlOutcomes : downloadTail(u, r)

NextUrl ==
    \/ UrlDownload
    \/ MimeSave

SpecUrl == InitMime /\ [][NextUrl]_vars

(***************************************************************************)
(* The conversion pass over references with alt text: plain words, and alt *)
(* texts that hold a "$" followed by "$" or "&".                           *)
(***************************************************************************)
AltTexts == {"sun set", "US$$ price", "Q$&A"}

AltDocChoices ==
    {[extension |-> "md", content |-> <<MdSpan(a, UrlPhoto, FALSE)>>] : a \in AltTexts}

InitAlt ==
    /\ settings \in SettingsChoices
    /\ useMarkdownLinks \in BOOLEAN
    /\ docs \in [DocIds -> AltDocChoices \cup OtherDocChoices]
    /\ docs[1] \in AltDocChoices
    /\ \A d \in DocIds \ {1} : docs[d] \in OtherDocChoices
    /\ files = {}
    /\ Idle

SpecAlt == InitAlt /\ [][Next]_vars

(***************************************************************************)
(* The conversion pass when every step that can be taken is taken in the   *)
(* end: every request settles, every file operation settles, and the user  *)
(* closes every prompt with Rename, with Skip or without a button.         *)
(***************************************************************************)
InitLive ==
    /\ settings \in {s \in SettingsChoices : ~ s.dupNumberAtStart}
    /\ useMarkdownLinks = FALSE
    /\ docs \in [DocIds -> OtherDocChoices]
    /\ docs[1] = [extension |-> "md", content |-> <<MdSpan("", UrlPhoto, FALSE)>>]
    /\ \A d \in DocIds \ {1} : docs[d].content = <<TextSpan("notes", FALSE)>>
    /\ files = {}
    /\ Idle

\* the awaits of a pass, the prompt included
Awaiting == {"read", "verify", "download", "save", "modal", "renaming", "trash", "write",
             "returned"}

PcValues == Awaiting \cup {"idle", "failed", "hung", "done"}

\* what the pass awaits at `at` settles: the pass goes on from there
Settles(at) == pc = at /\ pc' \in PcValues \ {at}

SpecLive == InitLive /\ [][Next]_vars /\ \A at \in Awaiting : WF_pc(Settles(at))

(***************************************************************************)
(* Single-image insertion: RemoteSearchModal.insertImage into the body or  *)
(* into a property (processImageUrl, PropertyHandler.insertImageFromUrl),  *)
(* a pasted file (processImageFile), and renameImageFile called on a file  *)
(* of the vault.  One action per await.                                    *)
(***************************************************************************)
ActiveNote == docPath(1, "md")

\* ImageProcessor.generateSuggestedName under the default template
\* '{{fileName}}'
generateSuggestedName(activeFile) == sanitizeFileName(fileBasename(activeFile))

\* `temp-${Date.now()}`
TempBaseName == "temp-1"

\* StorageManager.generateMarkdownLink with an empty insertSize
storageGenerateMarkdownLink(path, displayText, markdownLinks) ==
    IF trim(displayText) = "" THEN generateMarkdownLink(path, markdownLinks)
    ELSE IF markdownLinks THEN "![" \o displayText \o "](" \o encodeURI(path) \o ")"
    ELSE "![[" \o fileName(path) \o "|" \o displayText \o "]]"

\* the record the catch blocks and the cancel branches return
Failure(message) ==
    [file |-> "", path |-> "", linkText |-> "", success |-> FALSE, error |-> message]

Success(path, displayText) ==
    [file |-> path, path |-> path,
     linkText |-> storageGenerateMarkdownLink(path, displayText, useMarkdownLinks),
     success |-> TRUE, error |-> ""]

CancelledByUser == "Cancelled by user"

InsOutcomes == {Threw, Response(404, {"image/png"}), Response(200, {"image/jpeg"})}

InitInsert ==
    /\ settings \in SettingsChoices
    /\ useMarkdownLinks \in BOOLEAN
    /\ docs = [d \in DocIds |-> [extension |-> "md", content |-> << >>]]
    /\ \E names \in InitialAssets(settings) :
          files = {pathInFolder(getAttachmentFolder(settings, ActiveNote), n) : n \in names}
    /\ Idle

\* a call of one of the operations
InsBegin(op, isPropertyInsertion) ==
    /\ insPc = "idle"
    /\ Cardinality(files) < MaxAssets
    /\ insOp' = op
    /\ insProperty' = isPropertyInsertion
    /\ insFinal' = ""
    /\ insDisplay' = ""
    /\ insCancelled' = FALSE
    /\ insReturned' = "no"
    /\ insResult' = NoImage
    /\ insThrown' = ""
    /\ insNotices' = {}
    /\ insInserted' = ""

\* RemoteSearchModal.insertImage up to the await of requestUrl in
\* processImageUrl, with options.insertToProperty or without
InsertImage ==
    /\ \E insertToProperty \in BOOLEAN : InsBegin("processImageUrl", insertToProperty)
    /\ insPc' = "get"
    /\ UNCHANGED <<insTemp, insExt, insModal>>
    /\ UNCHANGED <<files, restIns>>

\* processImageFile of a pasted file "shot.PNG", up to the await of
\* file.arrayBuffer()
PasteImage ==
    /\ InsBegin("processImageFile", FALSE)
    /\ insPc' = "get"
    /\ UNCHANGED <<insTemp, insExt, insModal>>
    /\ UNCHANGED <<files, restIns>>

\* after the data is there: the temp path when the prompt will be shown, the
\* final path otherwise
InsChoosePath(extension) ==
    /\ insExt' = extension
    /\ IF ~ settings.autoRename
       THEN /\ insTemp' = getAvailablePath(files, settings, TempBaseName, extension, ActiveNote)
            /\ insPc' = "saveTemp"
            /\ UNCHANGED insFinal
       ELSE /\ insFinal' = getAvailablePath(files, settings,
                               generateSuggestedName(ActiveNote), extension, ActiveNote)
            /\ insPc' = "save"
            /\ UNCHANGED insTemp
    /\ UNCHANGED <<insReturned, insResult>>

\* requestUrl / file.arrayBuffer() settles
InsGet ==
    /\ insPc = "get"
    /\ IF insOp = "processImageFile"
       THEN InsChoosePath(toLowerCase("PNG"))
       ELSE \E r \in InsOutcomes :
              IF r.threw \/ r.status >= 400
              THEN /\ insResult' = Failure(IF r.threw THEN "net::ERR_FAILED"
                                           ELSE "Failed to download image: " \o ToString(r.status))
                   /\ insReturned' = "image"
                   /\ insPc' = "returned"
                   /\ UNCHANGED <<insTemp, insExt, insFinal>>
              ELSE InsChoosePath(getExtensionFromMimeType(
                       IF r.headers = {} THEN "image/png" ELSE contentTypeOf(r)))
    /\ UNCHANGED <<insOp, insProperty, insModal, insDisplay, insCancelled, insThrown,
                   insNotices, insInserted>>
    /\ UNCHANGED <<files, restIns>>

\* saveFile(arrayBuffer, tempPath) resolves and the prompt opens
InsSaveTemp ==
    /\ insPc = "saveTemp"
    /\ files' = files \cup {insTemp}
    /\ insModal' = IF settings.enableDescriptiveImages
                      /\ ~ (insOp = "processImageUrl" /\ insProperty)
                   THEN "descriptive" ELSE "rename"
    /\ insPc' = "modal"
    /\ UNCHANGED <<insOp, insProperty, insTemp, insExt, insFinal, insDisplay, insCancelled,
                   insReturned, insResult, insThrown, insNotices, insInserted>>
    /\ UNCHANGED restIns

\* renameImageFile(imageFile, suggestedName, activeFile) on a file of the
\* vault, up to its first await
RenameImage ==
    /\ \E imageFile \in files :
         /\ InsBegin("renameImageFile", FALSE)
         /\ insTemp' = imageFile
         /\ insExt' = fileExtension(imageFile)
         /\ IF settings.enableDescriptiveImages
            THEN insModal' = "descriptive" /\ insPc' = "modal"
            ELSE IF ~ settings.autoRename
            THEN insModal' = "rename" /\ insPc' = "modal"
            ELSE insModal' = "none" /\ insPc' = "chosen"
    /\ UNCHANGED <<files, restIns>>

\* renameImageFile without a prompt: getDeduplicatedPath(suggestedName)
InsAutoName ==
    /\ insPc = "chosen"
    /\ insFinal' = getAvailablePath(files, settings, fileBasename(insTemp), insExt, ActiveNote)
    /\ insPc' = "rename"
    /\ UNCHANGED <<insOp, insProperty, insTemp, insExt, insModal, insDisplay, insCancelled,
                   insReturned, insResult, insThrown, insNotices, insInserted>>
    /\ UNCHANGED <<files, restIns>>

\* the user confirms the prompt; getDeduplicatedPath(finalName)
InsModalSubmit ==
    /\ insPc = "modal"
    /\ \E typed \in IF insModal = "rename"
                    THEN {[fileName |-> n, description |-> ""] :
                              n \in UserNames(IF insOp = "renameImageFile"
                                              THEN fileBasename(insTemp)
                                              ELSE generateSuggestedName(ActiveNote))}
                    ELSE {[fileName |-> toKebabCase(x), description |-> x] :
                              x \in UserDescriptions} :
         /\ insFinal' = getAvailablePath(files, settings, typed.fileName, insExt, ActiveNote)
         /\ insDisplay' = typed.description
    /\ insModal' = "none"
    /\ insPc' = "rename"
    /\ UNCHANGED <<insOp, insProperty, insTemp, insExt, insCancelled,
                   insReturned, insResult, insThrown, insNotices, insInserted>>
    /\ UNCHANGED <<files, restIns>>

\* the user cancels the prompt: renameImageFile returns null, the two process
\* operations go on to trash the temp file
InsModalCancel ==
    /\ insPc = "modal"
    /\ insModal' = "none"
    /\ insCancelled' = TRUE
    /\ IF insOp = "renameImageFile"
       THEN insReturned' = "null" /\ insPc' = "returned"
       ELSE insPc' = "trash" /\ UNCHANGED insReturned
    /\ UNCHANGED <<insOp, insProperty, insTemp, insExt, insFinal, insDisplay,
                   insResult, insThrown, insNotices, insInserted>>
    /\ UNCHANGED <<files, restIns>>

\* the user closes the prompt without a button: the promise never settles
InsModalDismiss ==
    /\ insPc = "modal"
    /\ insModal' = "none"
    /\ insPc' = "hung"
    /\ UNCHANGED <<insOp, insProperty, insTemp, insExt, insFinal, insDisplay, insCancelled,
                   insReturned, insResult, insThrown, insNotices, insInserted>>
    /\ UNCHANGED <<files, restIns>>

\* mutant: the cancel branch returns without trashing the temp file
InsTrash_LeavesTemp ==
    /\ insPc = "trash"
    /\ insResult' = Failure(CancelledByUser)
    /\ insReturned' = "image"
    /\ insPc' = "returned"
    /\ UNCHANGED <<insOp, insProperty, insTemp, insExt, insModal, insFinal, insDisplay,
                   insCancelled, insThrown, insNotices, insInserted>>
    /\ UNCHANGED <<files, restIns>>

\* fileManager.trashFile(tempFile) resolves; the cancel record is returned
InsTrash ==
    /\ insPc = "trash"
    /\ files' = files \ {insTemp}
    /\ insResult' = Failure(CancelledByUser)
    /\ insReturned' = "image"
    /\ insPc' = "returned"
    /\ UNCHANGED <<insOp, insProperty, insTemp, insExt, insModal, insFinal, insDisplay,
                   insCancelled, insThrown, insNotices, insInserted>>
    /\ UNCHANGED restIns

\* the notice after a file was stored (disableRenameNotice is off); none in
\* renameImageFile
SavedNotice == IF insOp = "renameImageFile" THEN {} ELSE {"Image saved as: " \o fileName(insFinal)}

\* fileManager.renameFile(tempFile, finalPath) resolves or rejects
InsRename ==
    /\ insPc = "rename"
    /\ \E ok \in BOOLEAN :
         IF ok
         THEN /\ files' = (files \ {insTemp}) \cup {insFinal}
              /\ insResult' = Success(insFinal, insDisplay)
              /\ insNotices' = insNotices \cup SavedNotice
         ELSE /\ insResult' = Failure("Destination file already exists!")
              /\ UNCHANGED <<files, insNotices>>
    /\ insReturned' = "image"
    /\ insPc' = "returned"
    /\ UNCHANGED <<insOp, insProperty, insTemp, insExt, insModal, insFinal, insDisplay,
                   insCancelled, insThrown, insInserted>>
    /\ UNCHANGED restIns

\* autoRename: saveFile(arrayBuffer, finalPath) resolves
InsSave ==
    /\ insPc = "save"
    /\ files' = files \cup {insFinal}
    /\ insResult' = Success(insFinal, "")
    /\ insNotices' = insNotices \cup SavedNotice
    /\ insReturned' = "image"
    /\ insPc' = "returned"
    /\ UNCHANGED <<insOp, insProperty, insTemp, insExt, insModal, insFinal, insDisplay,
                   insCancelled, insThrown, insInserted>>
    /\ UNCHANGED restIns

\* the caller goes on with the result: insertImageFromUrl throws on a result
\* without success and insertImage's catch shows the notice, or sets the
\* property; insertImage puts the link text at the cursor
InsCallerResumes ==
    /\ insPc = "returned"
    /\ IF insOp = "processImageUrl" /\ insProperty
       THEN IF ~ insResult.success \/ insResult.file = ""
            THEN /\ insThrown' = (IF insResult.error # "" THEN insResult.error
                                  ELSE "Failed to process image")
                 /\ insNotices' = insNotices \cup
                       {"Failed to insert image: " \o
                            (IF insResult.error # "" THEN insResult.error
                             ELSE "Failed to process image")}
                 /\ UNCHANGED insInserted
            ELSE /\ insInserted' = insResult.file
                 /\ UNCHANGED <<insThrown, insNotices>>
       ELSE IF insOp = "processImageUrl" /\ insResult.success /\ insResult.linkText # ""
            THEN /\ insInserted' = insResult.linkText
                 /\ UNCHANGED <<insThrown, insNotices>>
            ELSE UNCHANGED <<insThrown, insNotices, insInserted>>
    /\ insPc' = "done"
    /\ UNCHANGED <<insOp, insProperty, insTemp, insExt, insModal, insFinal, insDisplay,
                   insCancelled, insReturned, insResult>>
    /\ UNCHANGED <<files, restIns>>

NextInsert ==
    \/ InsertImage
    \/ PasteImage
    \/ RenameImage
    \/ InsGet
    \/ InsSaveTemp
    \/ InsAutoName
    \/ InsModalSubmit
    \/ InsModalCancel
    \/ InsModalDismiss
    \/ InsTrash
    \/ InsRename
    \/ InsSave
    \/ InsCallerResumes

SpecInsert == InitInsert /\ [][NextInsert]_vars

(***************************************************************************)
(* Two conversion passes at once (two file-open triggers, or a trigger and *)
(* a command), each on its own document of the folder notes, each with one *)
(* verified reference to the photo image, under automatic naming.  Each    *)
(* pass is followed from the settled GET of downloadAndSave to the end of  *)
(* renameImageFile; the steps of the two passes interleave at the awaits.  *)
(***************************************************************************)
InitRace ==
    /\ settings \in {s \in SettingsChoices : s.autoRename /\ ~ s.enableDescriptiveImages}
    /\ useMarkdownLinks = FALSE
    /\ docs = [d \in DocIds |-> [extension |-> "md", content |-> <<MdSpan("", UrlPhoto, FALSE)>>]]
    /\ \E names \in InitialAssets(settings) :
          files = {pathInFolder(getAttachmentFolder(settings, docPath(1, "md")), n) : n \in names}
    /\ Idle

Attempt(p, op, path) == [pass |-> p, op |-> op, path |-> path, existed |-> path \in files]

\* downloadAndSave: the GET has settled with an image; getAvailablePath
RaceChoose(p) ==
    /\ racePc[p] = "get"
    /\ racePath' = [racePath EXCEPT ![p] =
                        getAvailablePath(files, settings, urlBaseName(UrlPhoto), "png",
                                         docPath(p, "md"))]
    /\ racePc' = [racePc EXCEPT ![p] = "chosen"]
    /\ UNCHANGED <<files, raceTemp, raceAttempts, restRace>>

\* saveFile: vault.createBinary on the path chosen; it rejects when the path
\* exists, downloadAndSave answers null and the image is skipped
RaceCreate(p) ==
    /\ racePc[p] = "chosen"
    /\ raceAttempts' = raceAttempts \cup {Attempt(p, "create", racePath[p])}
    /\ IF racePath[p] \in files
       THEN /\ racePc' = [racePc EXCEPT ![p] = "skipped"]
            /\ UNCHANGED <<files, raceTemp>>
       ELSE /\ files' = files \cup {racePath[p]}
            /\ raceTemp' = [raceTemp EXCEPT ![p] = racePath[p]]
            /\ racePc' = [racePc EXCEPT ![p] = "created"]
    /\ UNCHANGED <<racePath, restRace>>

\* renameImageFile: getDeduplicatedPath for the temp file's own base name
RaceChooseFinal(p) ==
    /\ racePc[p] = "created"
    /\ racePath' = [racePath EXCEPT ![p] =
                        getAvailablePath(files, settings, fileBasename(raceTemp[p]),
                                         fileExtension(raceTemp[p]), docPath(p, "md"))]
    /\ racePc' = [racePc EXCEPT ![p] = "renaming"]
    /\ UNCHANGED <<files, raceTemp, raceAttempts, restRace>>

\* fileManager.renameFile(tempFile, finalPath); it rejects when the path exists
RaceRename(p) ==
    /\ racePc[p] = "renaming"
    /\ raceAttempts' = raceAttempts \cup {Attempt(p, "rename", racePath[p])}
    /\ IF racePath[p] \in files
       THEN /\ racePc' = [racePc EXCEPT ![p] = "trash"]
            /\ UNCHANGED files
       ELSE /\ files' = (files \ {raceTemp[p]}) \cup {racePath[p]}
            /\ racePc' = [racePc EXCEPT ![p] = "converted"]
    /\ UNCHANGED <<racePath, raceTemp, restRace>>

\* processContent: the rename failed, the temp file is trashed and the image
\* is skipped
RaceTrash(p) ==
    /\ racePc[p] = "trash"
    /\ files' = files \ {raceTemp[p]}
    /\ racePc' = [racePc EXCEPT ![p] = "skipped"]
    /\ UNCHANGED <<racePath, raceTemp, raceAttempts, restRace>>

NextRace ==
    \/ \E p \in Passes : RaceChoose(p)
    \/ \E p \in Passes : RaceCreate(p)
    \/ \E p \in Passes : RaceChooseFinal(p)
    \/ \E p \in Passes : RaceRename(p)
    \/ \E p \in Passes : RaceTrash(p)

SpecRace == InitRace /\ [][NextRace]_vars

(***************************************************************************)
(* RemoteSearchModal: a search from the query field, the pagination        *)
(* buttons, and the search call settling.  A result list is its length:    *)
(* none, fewer than a full page, a full page of 20.                        *)
(***************************************************************************)
Queries == {"cat", "dog"}

ResultLengths == {0, 5, 20}

InitSearch ==
    /\ settings \in DefaultSettings
    /\ useMarkdownLinks = FALSE
    /\ docs = [d \in DocIds |-> [extension |-> "md", content |-> << >>]]
    /\ files = {}
    /\ Idle

\* performSearch(query), called with currentPage standing at page: the
\* early return while a search is loading; otherwise the page is set to 1
\* and remoteService.search(query, provider, 1) is called
performSearch(query, page) ==
    IF isLoading
    THEN /\ currentPage' = page
         /\ UNCHANGED <<currentQuery, isLoading, searchRequest>>
    ELSE /\ currentQuery' = query
         /\ currentPage' = 1
         /\ isLoading' = TRUE
         /\ searchRequest' = [query |-> query, page |-> 1]

\* Enter in the query field with a query typed
SearchEnter ==
    /\ \E query \in Queries : performSearch(query, currentPage)
    /\ UNCHANGED <<currentResults, displayed, buttons, lastClick, restSearch>>

\* the click handler of the Next button: currentPage++, performSearch
ClickNext ==
    /\ "next" \in buttons
    /\ currentPage < MaxPage
    /\ performSearch(currentQuery, currentPage + 1)
    /\ lastClick' = [button |-> "next", shown |-> displayed.page,
                     requested |-> IF isLoading THEN 0 ELSE searchRequest'.page]
    /\ UNCHANGED <<currentResults, displayed, buttons, restSearch>>

\* the click handler of the Previous button: currentPage--, performSearch
ClickPrevious ==
    /\ "prev" \in buttons
    /\ currentPage > - MaxPage
    /\ performSearch(currentQuery, currentPage - 1)
    /\ lastClick' = [button |-> "prev", shown |-> displayed.page,
                     requested |-> IF isLoading THEN 0 ELSE searchRequest'.page]
    /\ UNCHANGED <<currentResults, displayed, buttons, restSearch>>

\* renderPagination: Previous when currentPage > 1, Next when the list is full
renderPagination(length) ==
    (IF currentPage > 1 THEN {"prev"} ELSE {}) \cup (IF length >= 20 THEN {"next"} ELSE {})

\* remoteService.search settles: the results are rendered (an empty list is
\* rendered without renderPagination), or the error is; finally isLoading
\* is reset
SearchSettles ==
    /\ isLoading
    /\ \E ok \in BOOLEAN, length \in ResultLengths :
         IF ok
         THEN /\ currentResults' = [query |-> searchRequest.query,
                                    page |-> searchRequest.page, length |-> length]
              /\ displayed' = currentResults'
              /\ buttons' = IF length = 0 THEN buttons ELSE renderPagination(length)
         ELSE /\ displayed' = NoResults
              /\ UNCHANGED <<currentResults, buttons>>
    /\ isLoading' = FALSE
    /\ searchRequest' = NoRequest
    /\ UNCHANGED <<currentQuery, currentPage, lastClick, restSearch>>

NextSearch ==
    \/ SearchEnter
    \/ ClickNext
    \/ ClickPrevious
    \/ SearchSettles

SpecSearch == InitSearch /\ [][NextSearch]_vars

(***************************************************************************)
(* processMdxFrontMatter, called by PropertyHandler.setMdxProperty.  A     *)
(* frontmatter block is its lines: "key: value" lines and a line that is   *)
(* no YAML.  An object is the sequence of its entries in insertion order.  *)
(***************************************************************************)
Entry(k, v) == [key |-> k, value |-> v]

\* a line YAML cannot read: parseYaml throws on a block that holds it
BadLine == "{{ title"

FrontLines == {"title: Hello", "image: old.png", BadLine}

FrontTexts == UNION {[1..n -> FrontLines] : n \in 0..MaxLines}

\* the entry a "key: value" line stands for
parseYamlLine(line) ==
    Entry(SubSeq(line, 1, indexOf(line, ":") - 1),
          SubSeq(line, indexOf(line, ":") + 2, Len(line)))

\* parseYaml throws: a line that is no mapping entry, or a key mapped twice
yamlThrows(text) ==
    \/ \E i \in 1..Len(text) : indexOf(text[i], ":") = 0
    \/ \E i, j \in 1..Len(text) :
          i # j /\ parseYamlLine(text[i]).key = parseYamlLine(text[j]).key

\* parseYaml on a block it can read: the object of its entries
parseYaml(text) == [i \in 1..Len(text) |-> parseYamlLine(text[i])]

\* parseMdxFrontmatter(content): without a frontmatter block the whole text
\* is the body; a block parseYaml throws on gives the empty object
parseMdxFrontmatter(file) ==
    IF ~ file.hasFront THEN [frontmatter |-> << >>, body |-> file.body]
    ELSE IF yamlThrows(file.front) THEN [frontmatter |-> << >>, body |-> file.body]
    ELSE [frontmatter |-> parseYaml(file.front), body |-> file.body]

\* frontmatter[propertyName] = value on an object: an existing key keeps its
\* place, a new one is added last
setProperty(object, name, value) ==
    IF \E i \in 1..Len(object) : object[i].key = name
    THEN [i \in 1..Len(object) |->
             IF object[i].key = name THEN Entry(name, value) ELSE object[i]]
    ELSE Append(object, Entry(name, value))

\* stringifyYaml(object): a "key: value" line for each entry
stringifyYaml(object) ==
    [i \in 1..Len(object) |-> object[i].key \o ": " \o object[i].value]

\* the files the call is made on: a text without a frontmatter block has no
\* block lines
MdxFiles ==
    {[extension |-> e, hasFront |-> h, front |-> t, body |-> b] :
        e \in {"mdx"}, h \in BOOLEAN, t \in FrontTexts, b \in {"", "Text"}}
    \cup {[extension |-> "md", hasFront |-> FALSE, front |-> << >>, body |-> "Text"]}

InitMdx ==
    /\ settings \in DefaultSettings
    /\ useMarkdownLinks = FALSE
    /\ docs = [d \in DocIds |-> [extension |-> "md", content |-> << >>]]
    /\ files = {}
    /\ Idle

\* setMdxProperty(file, propertyName, value) calls processMdxFrontMatter:
\* the isMdxFile check, then the await of vault.read
MdxSetProperty ==
    /\ mdxPc = "idle"
    /\ \E file \in {f \in MdxFiles : f.hasFront \/ f.front = << >>},
          name \in {"image", "cover"} :
         /\ mdxFile' = file
         /\ mdxOriginal' = file
         /\ mdxCall' = [name |-> name, value |-> "new.png"]
         /\ mdxPc' = IF file.extension = "mdx" THEN "read" ELSE "failed"
    /\ UNCHANGED <<mdxNewContent, restMdx>>

\* vault.read settles: the text is parsed, the callback sets the property on
\* a copy of the object, the new text is put together
MdxRead ==
    /\ mdxPc = "read"
    /\ \E ok \in BOOLEAN :
         IF ok
         THEN /\ mdxNewContent' =
                    [extension |-> mdxFile.extension,
                     hasFront |-> TRUE,
                     front |-> stringifyYaml(setProperty(
                                   parseMdxFrontmatter(mdxFile).frontmatter,
                                   mdxCall.name, mdxCall.value)),
                     body |-> parseMdxFrontmatter(mdxFile).body]
              /\ mdxPc' = "modify"
         ELSE /\ mdxPc' = "failed"
              /\ UNCHANGED mdxNewContent
    /\ UNCHANGED <<mdxFile, mdxOriginal, mdxCall, restMdx>>

\* vault.modify(file, newContent) settles
MdxModify ==
    /\ mdxPc = "modify"
    /\ \E ok \in BOOLEAN :
         IF ok
         THEN mdxFile' = mdxNewContent /\ mdxPc' = "done"
         ELSE mdxPc' = "failed" /\ UNCHANGED mdxFile
    /\ UNCHANGED <<mdxOriginal, mdxCall, mdxNewContent, restMdx>>

NextMdx ==
    \/ MdxSetProperty
    \/ MdxRead
    \/ MdxModify

SpecMdx == InitMdx /\ [][NextMdx]_vars

(***************************************************************************)
(* Properties                                                              *)
(***************************************************************************)
\* the GET of verified image i has been issued
GetIssued(i) ==
    /\ i <= Len(externalImages)
    /\ i <= imgIdx
    /\ status[i] # "bgskip"

\* the number of spans of a text whose text is str
Occurrences(text, str) == Cardinality({k \in 1..Len(text) : text[k].text = str})

\* C1: one processFile pass calls vault.modify at most once, and only after a
\* substitution changed the text: a pass that substituted nothing (no
\* verified match included) returns without a write and leaves the document
\* as it was read.
C1_WriteOnlyAfterSubstitution ==
    /\ writes <= 1
    /\ (pc = "write" \/ writes > 0) => (count > 0 /\ newContent # content)
    /\ (pc = "returned" /\ newContent = content) =>
          (writes = 0 /\ docs[fileIdx].content = content)
    /\ (pc = "returned" /\ externalImages = << >>) => writes = 0

\* a pass with verified images, none of them substituted, has returned
C1_Witness ==
    /\ pc = "returned"
    /\ Len(externalImages) > 0
    /\ count = 0
    /\ writes = 0
    /\ \E i \in 1..Len(status) : status[i] \in {"dlfail", "cancelled"}

C3_TempLeftInPlace ==
    \A i \in 1..Len(status) :
        (status[i] = "renamefail" /\ i < imgIdx) => created[i] \in files

\* C4: in a processAllFiles run, a document whose read or write throws does
\* not abort the run: every other supported markdown file is still processed.
C4_FailureDoesNotAbort ==
    (trigger = "all" /\ pc = "failed") =>
        \A d \in getMarkdownFiles :
            (d # fileIdx /\ docs[d].extension \in settings.supportedExtensions)
                => d \in processed

\* C5: a pass started by the file-open handler while autoRename is off does
\* no conversion work: no prompt, no download, no write.
C5_BackgroundSkips ==
    (trigger = "fileopen" /\ ~ settings.autoRename) =>
        /\ prompts = 0
        /\ modal = "none"
        /\ pc \notin {"download", "save", "modal", "renaming", "trash", "write"}
        /\ writes = 0
        /\ \A i \in 1..Len(status) : status[i] \in {"pending", "bgskip"}

\* C6: a GET is issued for an image only after the HEAD probe of its match
\* answered a content-type beginning with image/; a match whose probe
\* answered text/html never gets a GET.
C6_VerifiedBeforeDownload ==
    /\ \A i \in 1..Len(externalImages) :
          GetIssued(i) =>
              /\ externalImages[i].cand <= Len(headLog)
              /\ ~ headLog[externalImages[i].cand].threw
              /\ \E h \in headLog[externalImages[i].cand].headers :
                    startsWith(toLowerCase(h), "image/")
    /\ \A k \in 1..Len(headLog) :
          "text/html" \in headLog[k].headers =>
              ~ \E i \in 1..Len(externalImages) :
                    GetIssued(i) /\ externalImages[i].cand = k

\* in one pass a GET was issued and another match was probed as text/html
C6_Witness ==
    /\ \E i \in 1..Len(externalImages) : GetIssued(i)
    /\ \E k \in 1..Len(headLog) : "text/html" \in headLog[k].headers

\* C7: a HEAD probe that throws or answers without content-type makes
\* verifyImageUrl return false: the match is dropped, and the pass does not
\* fail for it (a pass fails only at its read or at its write).
C7_FailClosed ==
    /\ \A r \in HeadOutcomes : (r.threw \/ r.headers = {}) => ~ verifyImageUrl(r)
    /\ \A k \in 1..Len(headLog) :
          (headLog[k].threw \/ headLog[k].headers = {}) =>
              ~ \E i \in 1..Len(externalImages) : externalImages[i].cand = k
    /\ pc = "failed" => (headLog = << >> \/ writes = 1)

\* a pass returned after one probe threw and another had no content-type
C7_Witness ==
    /\ pc = "returned"
    /\ \E k \in 1..Len(headLog) : headLog[k].threw
    /\ \E k \in 1..Len(headLog) : ~ headLog[k].threw /\ headLog[k].headers = {}

C9_AutoRenameNoPrompt ==
    settings.autoRename => (prompts = 0 /\ modal = "none")

\* the k-th path of the sequence C10 speaks of: name.ext for 0, then the
\* counter k after the name (suffix mode) or before it (prefix mode)
C10_Path(k) ==
    LET name == sanitizeFileName(dedupCall.baseName)
        folder == getAttachmentFolder(settings, docPath(1, "md"))
        file == IF k = 0 THEN name \o "." \o dedupCall.extension
                ELSE IF settings.dupNumberAtStart
                     THEN ToString(k) \o "-" \o name \o "." \o dedupCall.extension
                     ELSE name \o "-" \o ToString(k) \o "." \o dedupCall.extension
    IN  IF folder = "" THEN file ELSE folder \o "/" \o file

\* C10: getAvailablePath returns the first free path of the sequence name.ext,
\* counter 1, 2, 3, ...: no counter is skipped.  With delimiter '-': an
\* existing photo.png yields photo-1.png, photo-1.png existing too yields
\* photo-2.png, and in prefix mode the first collision yields 1-photo.png.
C10_FirstFreePath ==
    dedupResult # "" =>
        /\ \E k \in 0..Cardinality(files) :
              /\ dedupResult = C10_Path(k)
              /\ C10_Path(k) \notin files
              /\ \A j \in 0..(k - 1) : C10_Path(j) \in files
        /\ (/\ settings.attachmentLocation = "ObsidianDefault"
            /\ dedupCall.baseName = "photo"
            /\ "photo.png" \in files) =>
              /\ (~ settings.dupNumberAtStart /\ "photo-1.png" \notin files)
                    => dedupResult = "photo-1.png"
              /\ (~ settings.dupNumberAtStart /\ "photo-1.png" \in files
                    /\ "photo-2.png" \notin files) => dedupResult = "photo-2.png"
              /\ (settings.dupNumberAtStart /\ "1-photo.png" \notin files)
                    => dedupResult = "1-photo.png"

\* photo.png and photo-1.png exist and the call returned photo-2.png
C10_Witness ==
    /\ dedupCall.baseName = "photo"
    /\ {"photo.png", "photo-1.png"} \subseteq files
    /\ dedupResult = "photo-2.png"


\* C11: in a pass, the path a temp file is about to be created at, and the
\* path a temp file is about to be renamed to, is not a path of the vault at
\* that moment: no asset of the pass lands on a file created earlier in the
\* pass or on a file that was there before.
C11_FreshPaths ==
    /\ pc = "save" => tempPath \notin files
    /\ pc = "renaming" =>
          /\ tempPath \in files
          /\ finalPath \notin files
          /\ finalPath # tempPath

\* the second of two photo images is about to be renamed to photo-2.png: the
\* check saw its own temp file and the first image's final file
C11_Witness ==
    /\ pc = "renaming"
    /\ imgIdx = 2
    /\ status[1] = "converted"
    /\ Cardinality(files) = 2
    /\ fileName(finalPath) = "photo-2.png"


\* C12: the images of a pass are handled one after the other: while image
\* imgIdx is in its cycle every earlier image has finished its own (it is no
\* longer pending) and no later image has started (it is pending and has no
\* temp file); a prompt is open only while the pass waits for it, and the
\* pass has opened at most one prompt per image started.
C12_Sequential ==
    /\ \A i \in 1..Len(status) :
          /\ i < imgIdx => status[i] # "pending"
          /\ i > imgIdx => (status[i] = "pending" /\ created[i] = "")
          /\ (i = imgIdx /\ pc \in {"download", "save", "modal", "renaming"})
                => status[i] = "pending"
    /\ pc \in {"download", "save", "modal", "renaming", "trash"}
          => imgIdx \in 1..Len(externalImages)
    /\ (modal # "none") <=> (pc = "modal")
    /\ prompts <= imgIdx
    /\ prompts = Cardinality({i \in 1..Len(created) : created[i] # ""})
          \/ ~ (settings.enableDescriptiveImages \/ ~ settings.autoRename)

\* the prompt of the second image is open after the first image's cycle ended
C12_Witness ==
    /\ pc = "modal"
    /\ imgIdx = 2
    /\ prompts = 2
    /\ status[1] \in {"converted", "cancelled"}
    /\ status[2] = "pending"


TempCycle == {"save", "modal", "renaming", "trash"}

C15_SameFolder ==
    pc = "renaming" => parentPath(finalPath) = parentPath(tempPath)

\* C16: text another writer put into a document after the pass read it is
\* never taken out of the document by the pass.
C16_EditSurvives ==
    [][ \A d \in DocIds : HasEdit(d) => HasEdit(d)' ]_vars


\* C17: the spans of the document that lie in a code region are never
\* altered: neither in the text the pass builds nor in the text it writes.
C17_CodeUntouched ==
    \A k \in 1..Len(content) :
        content[k].code =>
            /\ newContent[k] = content[k]
            /\ pc = "returned" => docs[fileIdx].content[k] = content[k]


\* the text with every position of a fenced range turned into a barrier no
\* inline code span reaches across
FencesExcluded(text) ==
    [i \in 1..Len(text) |-> IF i \in fencedPositions(text) THEN "nl" ELSE text[i]]

\* the position lies in a fenced range, or in an inline code span of the
\* text outside the fenced ranges
InCodeRegion(text, p) ==
    \/ p \in fencedPositions(text)
    \/ \E m \in inlineMatches(FencesExcluded(text), 1) : m.start <= p /\ p <= m.end

\* C18: the scan keeps no reference that lies in a fenced block or in an
\* inline code span (the inline spans being those of the text outside the
\* fenced ranges), and it keeps every reference that lies in neither, spans
\* delimited by a backtick of a fence counted or not.
C18_ScannerSkipsCode ==
    scanCandidates # << >> =>
        /\ \A p \in scanCandidates[1] : ~ InCodeRegion(scanText, p)
        /\ \A p \in 1..Len(scanText) :
              (/\ scanText[p] = "I"
               /\ ~ InCodeRegion(scanText, p)
               /\ ~ \E m \in inlineMatches(scanText, 1) : m.start <= p /\ p <= m.end)
                  => p \in scanCandidates[1]


\* C19: when the whole-collection run has returned, the documents the
\* single-document flow was invoked on are exactly the documents whose
\* extension is in supportedExtensions, and the value returned is the total
\* the run added up.
C19_EverySupportedDocument ==
    (trigger = "all" /\ pc = "done") =>
        /\ processed = {d \in DocIds : docs[d].extension \in settings.supportedExtensions}
        /\ retval = totalCount


\* the media type a content-type header declares: the text before any
\* parameter, in lower case
DeclaredType(h) == toLowerCase(trim(splitFirst(h, ";")))

\* the extension the MIME table gives for a media type, png for any other
TableExtension(m) ==
    CASE m \in {"image/jpeg", "image/jpg"} -> "jpg"
      [] m = "image/png"     -> "png"
      [] m = "image/gif"     -> "gif"
      [] m = "image/webp"    -> "webp"
      [] m = "image/svg+xml" -> "svg"
      [] m = "image/bmp"     -> "bmp"
      [] m = "image/tiff"    -> "tiff"
      [] m = "image/avif"    -> "avif"
      [] OTHER -> "png"

\* C20: the file a downloaded response is stored in carries the extension
\* the MIME table gives for the content-type the response declares, png when
\* the table does not hold the type.
C20_StoredExtension ==
    dedupResult # "" =>
        fileExtension(dedupResult) = TableExtension(DeclaredType(contentTypeOf(getResponse)))


\* the last path segment of the URL, stripped of its extension
UrlStem(u) == splitFirst(splitPop(u.pathname, "/"), ".")

\* C21: the base name the downloader asks a path for is the URL's last path
\* segment stripped of its extension, and the placeholder "image" whenever
\* that segment yields nothing (a path ending in "/", a segment starting
\* with ".").
C21_PlaceholderBaseName ==
    (getUrl # NoUrl /\ dedupCall # NoCall) =>
        dedupCall.baseName = (IF UrlStem(getUrl) = "" THEN "image"
                              ELSE sanitizeFileName(UrlStem(getUrl)))


\* the notices insertImage's catch block shows
FailureNotices == {n \in insNotices : startsWith(n, "Failed to insert image")}

\* C22: cancelling the prompt of a single-image insertion (into the body or
\* into a property) is no error: no exception reaches the caller and no
\* failure notice is shown.
C22_CancelIsNotAnError ==
    insCancelled => (insThrown = "" /\ FailureNotices = {})

SpansReplaced(text) ==
    {i \in 1..Len(externalImages) : text[externalImages[i].pos] # content[externalImages[i].pos]}

\* C23: the count processFile returns is the number of verified images whose
\* match span was replaced in the text written back; an image whose span was
\* not replaced is not counted.
C23_CountIsSpansReplaced ==
    pc = "returned" =>
        /\ count = Cardinality(SpansReplaced(newContent))
        /\ count = Cardinality(SpansReplaced(docs[fileIdx].content))
        /\ \A i \in 1..Len(status) :
              status[i] = "converted" => i \in SpansReplaced(docs[fileIdx].content)


\* the local reference that shows alt for the file at path
LocalReference(alt, path) ==
    IF useMarkdownLinks THEN "![" \o alt \o "](" \o encodeURI(path) \o ")"
    ELSE "![[" \o fileName(path) \o "|" \o alt \o "]]"

\* C24: a verified markdown image reference with alt text, once converted,
\* is a local reference whose display segment is exactly that alt text, as a
\* wikilink and as a markdown image.
C24_AltPreserved ==
    (/\ pc \in {"write", "returned"}
     /\ Len(externalImages) = 1
     /\ externalImages[1].kind = "md"
     /\ externalImages[1].alt # ""
     /\ status = <<"converted">>) =>
        newContent[externalImages[1].pos].text = LocalReference(externalImages[1].alt, finalPath)


\* C25: the stored name carries a collision counter only when another file
\* held the plain path: a reference without alt text whose URL base name is
\* photo, converted without a prompt into a folder that holds no other file,
\* is stored as photo.<ext>.
C25_NoCounterWithoutCollision ==
    (/\ pc = "returned"
     /\ Len(externalImages) = 1
     /\ status = <<"converted">>
     /\ externalImages[1].alt = ""
     /\ urlBaseName(externalImages[1].url) = "photo"
     /\ prompts = 0
     /\ files = {finalPath}) =>
        fileBasename(finalPath) = "photo"


\* C26: when every request settles and the user closes every prompt (with
\* Rename, with Skip, or without a button), a pass that has read its
\* document comes to its end: processFile returns, or fails on the write.
C26_PassTerminates ==
    (pc = "read") ~> (pc \in {"returned", "failed", "done"})


\* C27: with two passes interleaved on one attachment folder, the path
\* getAvailablePath chose is still free when the create or the rename runs:
\* no create or rename is attempted onto an existing path, and no image is
\* skipped for such a collision.
C27_ChosenPathStillFree ==
    /\ \A a \in raceAttempts : ~ a.existed
    /\ \A p \in Passes : racePc[p] # "skipped"


\* C29: with the results of page p shown, Next requests page p + 1 and
\* Previous page p - 1 of the current query, and currentPage is the page of
\* the results the list shows.
C29_PaginationFollowsDisplay ==
    /\ lastClick.button = "next" => lastClick.requested = lastClick.shown + 1
    /\ lastClick.button = "prev" => lastClick.requested = lastClick.shown - 1
    /\ (displayed.page # 0 /\ ~ isLoading) => currentPage = displayed.page


\* the entries of a frontmatter block that can be parsed, as a set
Entries(text) == {parseYamlLine(text[i]) : i \in 1..Len(text)}

\* C30: processMdxFrontMatter loses no data: the body stays as it was, every
\* entry of the frontmatter other than the one the callback sets is kept,
\* and a frontmatter block that cannot be parsed makes the call fail with
\* the file as it was.
C30_FrontmatterKept ==
    /\ mdxFile.body = mdxOriginal.body
    /\ (mdxOriginal.hasFront /\ yamlThrows(mdxOriginal.front)) =>
          (mdxFile = mdxOriginal /\ mdxPc # "done")
    /\ (mdxOriginal.hasFront /\ ~ yamlThrows(mdxOriginal.front)) =>
          /\ ~ yamlThrows(mdxFile.front)
          /\ \A e \in Entries(mdxOriginal.front) :
                e.key # mdxCall.name => e \in Entries(mdxFile.front)

====
